---------------------------- MODULE Spec2Model ----------------------------
(***************************************************************************)
(* A model of pymc3's model-construction core:                             *)
(*   - the model context stack          (model.py, ContextMeta)            *)
(*   - the variable / coordinate registry of Model   (model.py, Model)     *)
(*   - the shape/dims/size resolver and the RV factory (distribution.py)   *)
(*                                                                         *)
(* The specifications share the variables:                                 *)
(*   Spec       two threads using the context stack, get_contexts taken    *)
(*              at the granularity at which CPython may switch threads     *)
(*   SpecReg    one thread building a parent model and nested children     *)
(*   SpecShape  the resolver applied to enumerated (shape, dims, size)     *)
(*   SpecCoord  coordinates added to the models of a hierarchy             *)
(*   SpecDist   random variables created in a model with coordinates       *)
(*   SpecFactory  Distribution.dist applied to enumerated arguments        *)
(*   SpecData   a data variable, variables sized through its dimensions,   *)
(*              and set_data                                               *)
(*   SpecObs    variables registered with observed data of every kind,     *)
(*              deterministics, potentials and the model's logp terms      *)
(*   SpecNames  name_for and name_of applied to enumerated names           *)
(***************************************************************************)
EXTENDS Integers, Sequences, FiniteSets, TLC

VARIABLES
    \* ---- context stack (ContextMeta) ----
    cls_contexts,   \* hasattr(Model, "contexts"): the class holds a threading.local
    tls,            \* tls[t]: thread t's view of that threading.local: [has, stack]
    pc,             \* pc[t]: where thread t is inside get_contexts, or "idle"
    op,             \* op[t]: the operation thread t is executing
    withs,          \* withs[t]: the with-statements thread t is inside (innermost last)
    res,            \* res[t]: how the last finished operation of t ended
    \* ---- resolver (distribution.py) ----
    rin,            \* the (shape, dims, size) triple handed to the resolver
    rout,           \* the resolver's outcome for rin
    din,            \* the arguments of a Distribution.dist call
    dout,           \* the outcome of that call
    \* ---- Model (model.py); every collection is indexed by model ----
    models,         \* models[i]: [name, parent] (parent = 0: a root model)
    named_vars,     \* named_vars[i]: name -> variable id
    free_RVs, observed_RVs, deterministics, auto_deterministics, potentials,
    rvs_to_values, values_to_rvs,
    coords,         \* coords[i]: dimension name -> coordinate values
    dim_lengths,    \* dim_lengths[i]: dimension name -> length
    RV_dims,        \* RV_dims[i]: variable name -> dims tuple
    vinfo,          \* vinfo[id]: the graph variable with that id
    warned,         \* the ImputationWarnings emitted: the names of the variables
    last,           \* the last Model operation: its arguments and how it ended
    nops            \* number of Model operations performed

ctxvars == <<cls_contexts, tls, pc, op, withs, res>>
shapevars == <<rin, rout, din, dout>>
regvars == <<models, named_vars, free_RVs, observed_RVs, deterministics,
             auto_deterministics, potentials, rvs_to_values, values_to_rvs, coords,
             dim_lengths, RV_dims, vinfo, warned, last, nops>>
vars == <<cls_contexts, tls, pc, op, withs, res, rin, rout, din, dout, models,
          named_vars, free_RVs, observed_RVs, deterministics, auto_deterministics, potentials,
          rvs_to_values, values_to_rvs, coords, dim_lengths, RV_dims, vinfo, warned,
          last, nops>>

(***************************************************************************)
(* Bounds                                                                  *)
(***************************************************************************)
MaxDepth == 2        \* with-statements a thread nests
MaxLen == 2          \* elements of a shape / dims / size sequence handed to the resolver
MaxModels == 2       \* model instances of one hierarchy
MaxRegs == 2         \* registrations (register_rv, Deterministic, Potential) in one run
MaxRVs == 1          \* random variables created through Distribution.__new__ in one run
MaxRank == 2         \* entries of a shape / dims / size handed to a distribution
MaxName == 3         \* characters of a name handed to name_for

Threads == {"t1", "t2"}
OkIds == {"a"}

Last(s) == s[Len(s)]
Front(s) == SubSeq(s, 1, Len(s) - 1)

(***************************************************************************)
(* Model instances as the context stack sees them.  cfg says whether       *)
(* aesara.config.change_flags accepts the instance's _aesara_config        *)
(* (Model.__new__ stores kwargs.get("aesara_config", {}) unchecked).       *)
(***************************************************************************)
Instances(t) ==
    {[thr |-> t, id |-> i, cfg |-> "ok"] : i \in OkIds}
        \cup {[thr |-> t, id |-> "z", cfg |-> "bad"]}

NoInstance == [thr |-> "", id |-> "", cfg |-> ""]
NoOp == [kind |-> "none", m |-> NoInstance, flag |-> FALSE, init |-> FALSE]
NoRes == [kind |-> "unset", m |-> NoInstance]
Done(k) == [kind |-> k, m |-> NoInstance]

\* The list get_contexts would hand to thread t right now.
CurStack(t) == IF cls_contexts /\ tls[t].has THEN tls[t].stack ELSE <<>>

WithModels(t) == [i \in 1..Len(withs[t]) |-> withs[t][i].m]

NoLocal == [t \in Threads |-> [has |-> FALSE, stack |-> <<>>]]

CtxInit ==
    /\ cls_contexts = FALSE
    /\ tls = NoLocal
    /\ pc = [t \in Threads |-> "idle"]
    /\ op = [t \in Threads |-> NoOp]
    /\ withs = [t \in Threads |-> <<>>]
    /\ res = [t \in Threads |-> NoRes]

(***************************************************************************)
(* Values handed to shape=, dims= and size=.  kind is the Python type of   *)
(* the argument (none, int, str, tuple, list, var: an aesara Variable,     *)
(* other: anything else, e.g. a float); items are its elements (the one    *)
(* value of an int or str).  An element is an int, a str, None or Ellipsis.*)
(***************************************************************************)
IntE(n) == [t |-> "int", n |-> n, s |-> ""]
StrE(x) == [t |-> "str", n |-> 0, s |-> x]
NoneE == [t |-> "none", n |-> 0, s |-> ""]
Ell == [t |-> "ell", n |-> 0, s |-> ""]

None == [kind |-> "none", items |-> <<>>]
Tup(items) == [kind |-> "tuple", items |-> items]

NoOut == [ran |-> FALSE, ok |-> FALSE, err |-> "", shape |-> None, dims |-> None,
          size |-> None]

\* A random variable of the graph before it has a name: the generator's
\* inputs (see "Graph variables" below).
NoRV == [name |-> <<>>, kind |-> "rv", P |-> <<>>, supp |-> <<>>, size |-> <<>>]

NoDistIn == [P |-> <<>>, supp |-> <<>>, shape |-> None, size |-> None]
NoDistOut == [ran |-> FALSE, ok |-> FALSE, err |-> "", rv |-> NoRV, warn |-> FALSE]

DistIdle ==
    /\ din = NoDistIn
    /\ dout = NoDistOut

ShapeIdle ==
    /\ rin = <<None, None, None>>
    /\ rout = NoOut
    /\ DistIdle

(***************************************************************************)
(* Model.__init__: the state of a freshly constructed root model.  Names   *)
(* are Python strings, kept as sequences of one-character strings so that  *)
(* startswith, slicing and concatenation are the real ones.                *)
(***************************************************************************)
NoLast == [op |-> "none", model |-> 0, given |-> <<>>, name |-> <<>>, var |-> 0,
           ok |-> FALSE, err |-> "", tr |-> <<>>,
           data |-> [k |-> "none", shape |-> <<>>, mask |-> <<>>],
           P |-> <<>>, supp |-> <<>>, shape |-> None, dims |-> None, size |-> None,
           dim |-> NoneE, values |-> [k |-> "none", v |-> <<>>],
           length |-> [k |-> "none", n |-> 0, rv |-> 0, ax |-> 0], vals |-> <<>>,
           cds |-> <<>>, msg |-> "", out |-> <<>>]

RegInit ==
    /\ models = <<[name |-> <<>>, parent |-> 0]>>
    /\ named_vars = << <<>> >>
    /\ free_RVs = << <<>> >>
    /\ observed_RVs = << <<>> >>
    /\ deterministics = << <<>> >>
    /\ auto_deterministics = << <<>> >>
    /\ potentials = << <<>> >>
    /\ rvs_to_values = << <<>> >>
    /\ values_to_rvs = << <<>> >>
    /\ coords = << <<>> >>
    /\ dim_lengths = << <<>> >>
    /\ RV_dims = << <<>> >>
    /\ vinfo = <<>>
    /\ warned = <<>>
    /\ last = NoLast
    /\ nops = 0

(***************************************************************************)
(* Starting an operation: every one of them begins by calling              *)
(* get_contexts, whose first statement reads hasattr(context_class,        *)
(* "contexts").                                                            *)
(***************************************************************************)
Begin(t, o) ==
    /\ pc[t] = "idle"
    /\ pc' = [pc EXCEPT ![t] = "check"]
    /\ op' = [op EXCEPT ![t] = o]
    /\ res' = [res EXCEPT ![t] = NoRes]
    /\ UNCHANGED <<cls_contexts, tls, withs>>
    /\ UNCHANGED <<shapevars, regvars>>

\* `with m:` on an existing instance: __enter__.
Enter(t, m) ==
    /\ m.cfg = "ok"
    /\ Len(withs[t]) < MaxDepth
    /\ Len(CurStack(t)) < MaxDepth
    /\ Begin(t, [kind |-> "enter", m |-> m, flag |-> FALSE, init |-> FALSE])

\* The with-body ends, normally or (raised) by an exception: the interpreter
\* calls __exit__ of the innermost with-statement either way.  An exception
\* goes on to the next enclosing with-statement or to a handler.  __exit__
\* does not look at the exception it is handed.
Exit(t, raised) ==
    /\ withs[t] # <<>>
    /\ Begin(t, [kind |-> "exit", m |-> Last(withs[t]).m, flag |-> FALSE,
                 init |-> Last(withs[t]).init])

\* cls.get_context(error_if_none)
GetContext(t, flag) ==
    Begin(t, [kind |-> "get", m |-> NoInstance, flag |-> flag, init |-> FALSE])

\* modelcontext(model): a given model is returned as it is, the stack untouched.
ModelContextGiven(t, m) ==
    /\ pc[t] = "idle"
    /\ m.cfg = "ok"
    /\ res' = [res EXCEPT ![t] = [kind |-> "model", m |-> m]]
    /\ UNCHANGED <<cls_contexts, tls, pc, op, withs>>
    /\ UNCHANGED <<shapevars, regvars>>

\* modelcontext(None): Model.get_context(error_if_none=False), TypeError on None.
ModelContextNone(t) ==
    Begin(t, [kind |-> "modelcontext", m |-> NoInstance, flag |-> FALSE, init |-> FALSE])

\* ContextMeta.__call__: cls.__new__ (which asks get_context for the parent
\* unless model= was given), then `with instance: instance.__init__(...)`.
\* The instance is a new object: it is on no stack yet.
Construct(t, m, parent_given) ==
    /\ Len(withs[t]) < MaxDepth
    /\ Len(CurStack(t)) < MaxDepth
    /\ \A i \in 1..Len(CurStack(t)) : CurStack(t)[i] # m
    /\ \A i \in 1..Len(withs[t]) : withs[t][i].m # m
    /\ Begin(t, [kind |-> IF parent_given THEN "enter" ELSE "new", m |-> m,
                 flag |-> FALSE, init |-> TRUE])

(***************************************************************************)
(* get_contexts, lines 204-211                                             *)
(***************************************************************************)
\* if not hasattr(context_class, "contexts"):
GcCheck(t) ==
    /\ pc[t] = "check"
    /\ pc' = [pc EXCEPT ![t] = IF cls_contexts THEN "use" ELSE "create"]
    /\ UNCHANGED <<cls_contexts, tls, op, withs, res>>
    /\ UNCHANGED <<shapevars, regvars>>

\*     context_class.contexts = threading.local()
\* The object it replaces, if any, is referenced from nowhere else: every
\* thread's stack in it is gone.
GcCreate(t) ==
    /\ pc[t] = "create"
    /\ cls_contexts' = TRUE
    /\ tls' = NoLocal
    /\ pc' = [pc EXCEPT ![t] = "use"]
    /\ UNCHANGED <<op, withs, res>>
    /\ UNCHANGED <<shapevars, regvars>>

\* contexts = context_class.contexts; create contexts.stack if absent; return it.
\* What the caller then does with the list touches only the thread's own data,
\* so it is taken in the same step.
StackNow(t) == IF tls[t].has THEN tls[t].stack ELSE <<>>

SetStack(t, s) == tls' = [tls EXCEPT ![t] = [has |-> TRUE, stack |-> s]]

Return(t) ==
    /\ pc' = [pc EXCEPT ![t] = "idle"]
    /\ op' = [op EXCEPT ![t] = NoOp]
    /\ UNCHANGED cls_contexts
    /\ UNCHANGED <<shapevars, regvars>>

\* __enter__: append, then enter the aesara config context (which raises for
\* a config aesara rejects; __exit__ is then never called).
EnterPush(s, m) == Append(s, m)

UseEnter(t) ==
    /\ pc[t] = "use"
    /\ op[t].kind = "enter"
    /\ SetStack(t, EnterPush(StackNow(t), op[t].m))
    /\ IF op[t].m.cfg = "ok"
       THEN /\ withs' = [withs EXCEPT ![t] =
                    Append(@, [m |-> op[t].m, init |-> op[t].init, before |-> StackNow(t)])]
            /\ res' = [res EXCEPT ![t] = Done("entered")]
       ELSE /\ res' = [res EXCEPT ![t] = Done("ConfigError")]
            /\ UNCHANGED withs
    /\ Return(t)

\* __exit__: get_contexts().pop()
ExitPop(s) == Front(s)

UseExit(t) ==
    /\ pc[t] = "use"
    /\ op[t].kind = "exit"
    /\ withs' = [withs EXCEPT ![t] = Front(@)]
    /\ IF StackNow(t) = <<>>
       THEN /\ SetStack(t, <<>>)
            /\ res' = [res EXCEPT ![t] = Done("IndexError")]
       ELSE /\ SetStack(t, ExitPop(StackNow(t)))
            /\ res' = [res EXCEPT ![t] = [kind |-> "popped", m |-> Last(StackNow(t))]]
    /\ Return(t)

GetContextResultFirst(s, error_if_none) ==
    IF s # <<>> THEN [kind |-> "model", m |-> s[1]]
    ELSE IF error_if_none THEN Done("TypeError")
    ELSE Done("None")

\* get_context: the last element, or on IndexError a TypeError / None.
GetContextResult(s, error_if_none) ==
    IF s # <<>> THEN [kind |-> "model", m |-> Last(s)]
    ELSE IF error_if_none THEN Done("TypeError")
    ELSE Done("None")

UseGet(t) ==
    /\ pc[t] = "use"
    /\ op[t].kind = "get"
    /\ SetStack(t, StackNow(t))
    /\ res' = [res EXCEPT ![t] = GetContextResult(StackNow(t), op[t].flag)]
    /\ UNCHANGED withs
    /\ Return(t)

\* modelcontext(None): get_context(error_if_none=False), then TypeError on None.
ModelContextResult(s) ==
    LET r == GetContextResult(s, FALSE) IN
    IF r.kind = "None" THEN Done("TypeError") ELSE r

UseModelContext(t) ==
    /\ pc[t] = "use"
    /\ op[t].kind = "modelcontext"
    /\ SetStack(t, StackNow(t))
    /\ res' = [res EXCEPT ![t] = ModelContextResult(StackNow(t))]
    /\ UNCHANGED withs
    /\ Return(t)

\* Model.__new__: instance._parent = cls.get_context(error_if_none=False);
\* ContextMeta.__call__ goes on to `with instance:`, a second get_contexts call.
UseNew(t) ==
    /\ pc[t] = "use"
    /\ op[t].kind = "new"
    /\ SetStack(t, StackNow(t))
    /\ op' = [op EXCEPT ![t].kind = "enter"]
    /\ pc' = [pc EXCEPT ![t] = "check"]
    /\ UNCHANGED <<cls_contexts, withs, res>>
    /\ UNCHANGED <<shapevars, regvars>>

NextCtx ==
    \E t \in Threads :
        \/ \E m \in Instances(t) : Enter(t, m)
        \/ \E raised \in BOOLEAN : Exit(t, raised)
        \/ \E flag \in BOOLEAN : GetContext(t, flag)
        \/ \E m \in Instances(t) : ModelContextGiven(t, m)
        \/ ModelContextNone(t)
        \/ \E m \in Instances(t), pg \in BOOLEAN : Construct(t, m, pg)
        \/ GcCheck(t)
        \/ GcCreate(t)
        \/ UseEnter(t)
        \/ UseExit(t)
        \/ UseGet(t)
        \/ UseModelContext(t)
        \/ UseNew(t)

Init == CtxInit /\ ShapeIdle /\ RegInit

Spec == Init /\ [][NextCtx]_vars


(***************************************************************************)
(* Context stack: claims                                                   *)
(***************************************************************************)
RECURSIVE IsSubSeq(_, _)
IsSubSeq(a, b) ==
    IF a = <<>> THEN TRUE
    ELSE IF b = <<>> THEN FALSE
    ELSE IF Head(a) = Head(b) THEN IsSubSeq(Tail(a), Tail(b))
    ELSE IsSubSeq(a, Tail(b))

ExitReturns(t) == pc[t] = "use" /\ op[t].kind = "exit" /\ pc'[t] = "idle"
GetReturns(t) == pc[t] = "use" /\ op[t].kind = "get" /\ pc'[t] = "idle"
ModelContextReturns(t) == pc[t] = "use" /\ op[t].kind = "modelcontext" /\ pc'[t] = "idle"

\* C1: whenever __exit__ of a with-statement returns (the body having ended
\* normally or by an exception), it has popped the instance the with-statement
\* pushed, and the thread's stack is again what it was before the
\* with-statement.
C1_ExitRestoresStack ==
    [][\A t \in Threads :
        ExitReturns(t) =>
            /\ res'[t] = [kind |-> "popped", m |-> Last(withs[t]).m]
            /\ CurStack(t)' = Last(withs[t]).before]_vars

\* C2: under every interleaving, every entry of the stack a thread sees was
\* pushed by that thread, and the models the thread has entered and not yet
\* exited are all on it, in the order of entry.
C2_ThreadIsolation ==
    \A t \in Threads :
        /\ \A i \in 1..Len(CurStack(t)) : CurStack(t)[i].thr = t
        /\ pc[t] = "idle" => IsSubSeq(WithModels(t), CurStack(t))

\* C3: get_context called in the initializer returns the instance under
\* construction, and when the constructor returns or raises the thread's stack
\* is what it was before the constructor pushed the instance.
C3_ConstructorContext ==
    [][\A t \in Threads :
        /\ (GetReturns(t) /\ withs[t] # <<>> /\ Last(withs[t]).init)
                => res'[t] = [kind |-> "model", m |-> Last(withs[t]).m]
        /\ (ExitReturns(t) /\ op[t].init)
                => CurStack(t)' = Last(withs[t]).before
        /\ (pc[t] = "use" /\ op[t].kind = "enter" /\ op[t].init
                /\ res'[t].kind = "ConfigError")
                => CurStack(t)' = StackNow(t)]_vars

\* C4: get_context returns the top of the calling thread's stack when that
\* stack is non-empty; on an empty stack it raises TypeError if error_if_none
\* and returns None otherwise (modelcontext(None): always TypeError); the
\* calling thread's stack is the same after the call.
C4_GetContext ==
    [][\A t \in Threads :
        /\ GetReturns(t) =>
            /\ CurStack(t) # <<>> =>
                    res'[t] = [kind |-> "model", m |-> CurStack(t)[Len(CurStack(t))]]
            /\ (CurStack(t) = <<>> /\ op[t].flag) => res'[t].kind = "TypeError"
            /\ (CurStack(t) = <<>> /\ ~op[t].flag) => res'[t].kind = "None"
            /\ CurStack(t)' = CurStack(t)
        /\ ModelContextReturns(t) =>
            /\ CurStack(t) # <<>> =>
                    res'[t] = [kind |-> "model", m |-> CurStack(t)[Len(CurStack(t))]]
            /\ CurStack(t) = <<>> => res'[t].kind = "TypeError"
            /\ CurStack(t)' = CurStack(t)]_vars

\* get_context has returned the top of a two-element stack whose entries
\* differ, and another call has ended in TypeError on an empty stack.
C4_Witness ==
    /\ \E t \in Threads :
        /\ pc[t] = "idle"
        /\ res[t].kind = "model"
        /\ Len(CurStack(t)) = 2
        /\ CurStack(t)[1] # CurStack(t)[2]
    /\ \E t \in Threads :
        /\ pc[t] = "idle"
        /\ res[t].kind = "TypeError"
        /\ CurStack(t) = <<>>


(***************************************************************************)
(* distribution.py: the shape / dims / size resolver                       *)
(***************************************************************************)
HasEllipsis(items) == \E i \in 1..Len(items) : items[i] = Ell

ValidEllipsisAnywhereForbidden(a) ==
    ~(a.kind # "none" /\ a.kind # "var" /\ HasEllipsis(a.items))

\* _valid_ellipsis_position: an Ellipsis among items[:-1] is invalid.
valid_ellipsis_position(a) ==
    IF a.kind # "none" /\ a.kind # "var" /\ HasEllipsis(a.items)
    THEN ~(\E i \in 1..(Len(a.items) - 1) : a.items[i] = Ell)
    ELSE TRUE

ConflictingNoShapeSize(shape, dims, size) ==
    \/ shape.kind # "none" /\ dims.kind # "none"
    \/ dims.kind # "none" /\ size.kind # "none"

\* lines 141-146: the three "Passing both" checks.
Conflicting(shape, dims, size) ==
    \/ shape.kind # "none" /\ dims.kind # "none"
    \/ dims.kind # "none" /\ size.kind # "none"
    \/ shape.kind # "none" /\ size.kind # "none"

\* lines 149-154: isinstance checks.
BadType(shape, dims, size) ==
    \/ shape.kind \notin {"none", "int", "list", "tuple", "var"}
    \/ dims.kind \notin {"none", "str", "list", "tuple"}
    \/ size.kind \notin {"none", "int", "list", "tuple", "var"}

\* lines 157-170: an int / str becomes a one-tuple, a list becomes a tuple.
ToTuple(a) ==
    IF a.kind \in {"int", "str", "list"} THEN Tup(a.items) ELSE a

Fail(e) == [ran |-> TRUE, ok |-> FALSE, err |-> e, shape |-> None, dims |-> None,
            size |-> None]

\* _validate_shape_dims_size
validate_shape_dims_size(shape, dims, size) ==
    IF Conflicting(shape, dims, size) THEN Fail("ValueError")
    ELSE IF BadType(shape, dims, size) THEN Fail("ValueError")
    ELSE LET sh == ToTuple(shape)
             di == ToTuple(dims)
             si == ToTuple(size)
         IN  IF ~valid_ellipsis_position(sh) THEN Fail("ValueError")
             ELSE IF ~valid_ellipsis_position(di) THEN Fail("ValueError")
             ELSE IF si.kind # "none" /\ HasEllipsis(si.items) THEN Fail("ValueError")
             ELSE [ran |-> TRUE, ok |-> TRUE, err |-> "", shape |-> sh, dims |-> di,
                   size |-> si]

Elems == {IntE(2), StrE("a"), Ell}

RECURSIVE SeqsUpTo(_, _)
SeqsUpTo(S, n) ==
    IF n = 0 THEN {<<>>}
    ELSE LET shorter == SeqsUpTo(S, n - 1)
         IN  shorter \cup {Append(q, e) : q \in shorter, e \in S}

Args ==
    {None, [kind |-> "int", items |-> <<IntE(2)>>], [kind |-> "str", items |-> <<StrE("a")>>],
     [kind |-> "var", items |-> <<>>], [kind |-> "other", items |-> <<>>]}
        \cup {[kind |-> k, items |-> q] : k \in {"tuple", "list"}, q \in SeqsUpTo(Elems, MaxLen)}

ShapeInit ==
    /\ rin \in Args \X Args \X Args
    /\ rout = NoOut
    /\ DistIdle

Resolve ==
    /\ ~rout.ran
    /\ rout' = validate_shape_dims_size(rin[1], rin[2], rin[3])
    /\ UNCHANGED <<rin, din, dout>>
    /\ UNCHANGED <<ctxvars, regvars>>

NextShape == Resolve

InitShape == CtxInit /\ ShapeInit /\ RegInit

SpecShape == InitShape /\ [][NextShape]_vars

(***************************************************************************)
(* Resolver: claims                                                        *)
(***************************************************************************)
NonNull == Cardinality({i \in 1..3 : rin[i].kind # "none"})

WellTyped ==
    /\ rin[1].kind \in {"none", "int", "list", "tuple", "var"}
    /\ rin[2].kind \in {"none", "str", "list", "tuple"}
    /\ rin[3].kind \in {"none", "int", "list", "tuple", "var"}

EllipsisBeforeEnd(a) == \E i \in 1..Len(a.items) : a.items[i] = Ell /\ i < Len(a.items)
EllipsisOnlyAtEnd(a) ==
    /\ a.items # <<>>
    /\ a.items[Len(a.items)] = Ell
    /\ \A i \in 1..Len(a.items) : a.items[i] = Ell => i = Len(a.items)

\* C8: with two or three of shape, dims, size given the resolver fails with
\* ValueError; with at most one given, well-typed, its Ellipsis (if any) in a
\* valid position (last for shape and dims, nowhere for size), it succeeds.
C8_Exclusivity ==
    rout.ran =>
        /\ NonNull >= 2 => (~rout.ok /\ rout.err = "ValueError")
        /\ (/\ NonNull <= 1
            /\ WellTyped
            /\ ~EllipsisBeforeEnd(rin[1])
            /\ ~EllipsisBeforeEnd(rin[2])
            /\ \A i \in 1..Len(rin[3].items) : rin[3].items[i] # Ell) => rout.ok

\* The resolver has rejected shape and size given together (dims absent).
C8_Witness ==
    /\ rout.ran
    /\ rin[1].kind = "tuple"
    /\ rin[2].kind = "none"
    /\ rin[3].kind = "list"
    /\ ~rout.ok

\* C9: a shape or dims sequence with an Ellipsis before its last position is
\* rejected; one whose only Ellipsis is its last element is accepted; a size
\* sequence with an Ellipsis anywhere is rejected.
C9_EllipsisPlacement ==
    rout.ran =>
        /\ \A i \in {1, 2} :
            rin[i].kind \in {"tuple", "list"} =>
                /\ EllipsisBeforeEnd(rin[i]) => ~rout.ok
                /\ (NonNull = 1 /\ EllipsisOnlyAtEnd(rin[i])) => rout.ok
        /\ (rin[3].kind \in {"tuple", "list"} /\ HasEllipsis(rin[3].items)) => ~rout.ok

\* The resolver has accepted dims = (name, ...) given alone.
C9_Witness ==
    /\ rout.ran
    /\ rout.ok
    /\ NonNull = 1
    /\ rin[2].kind = "tuple"
    /\ Len(rin[2].items) = 2
    /\ rin[2].items[2] = Ell


(***************************************************************************)
(* model.py: Model, its variable registry and its coordinate registry      *)
(***************************************************************************)
RECURSIVE AncestorsOrSelf(_)
\* The model and the chain of its parents (Model.parent, up to Model.root).
AncestorsOrSelf(mi) ==
    IF mi = 0 THEN {} ELSE {mi} \cup AncestorsOrSelf(models[mi].parent)

\* pymc3.util.treedict.__setitem__ and treelist.append (withparent): the write
\* is applied to the collection itself and then to its parent, recursively.
treedict_setitem(d, mi, k, v) ==
    [j \in DOMAIN d |-> IF j \in AncestorsOrSelf(mi) THEN (k :> v) @@ d[j] ELSE d[j]]

treelist_append(l, mi, x) ==
    [j \in DOMAIN l |-> IF j \in AncestorsOrSelf(mi) THEN Append(l[j], x) ELSE l[j]]

\* pymc3.util.treedict.tree_contains: the key is in the dict or in a parent's.
tree_contains(d, mi, k) == \E j \in AncestorsOrSelf(mi) : k \in DOMAIN d[j]

\* str.startswith
StartsWith(s, p) == Len(s) >= Len(p) /\ SubSeq(s, 1, Len(p)) = p

\* Model.prefix
prefix(mi) == IF models[mi].name # <<>> THEN models[mi].name \o <<"_">> ELSE <<>>

\* name_for without the prefix: the name is stored as given.
name_for_unprefixed(mi, name) == name

\* name_for that adds the prefix without looking at the name.
name_for_always(mi, name) == prefix(mi) \o name

\* Model.name_for
name_for(mi, name) ==
    IF prefix(mi) # <<>>
    THEN IF ~StartsWith(name, prefix(mi)) THEN prefix(mi) \o name ELSE name
    ELSE name

\* Model.name_of
name_of(mi, name) ==
    IF prefix(mi) = <<>> \/ name = <<>> THEN name
    ELSE IF StartsWith(name, prefix(mi))
         THEN SubSeq(name, Len(prefix(mi)) + 1, Len(name))
         ELSE name

\* Model.__getitem__: [found, var]
getitem(mi, key) ==
    IF key \in DOMAIN named_vars[mi] THEN [found |-> TRUE, var |-> named_vars[mi][key]]
    ELSE IF name_for(mi, key) \in DOMAIN named_vars[mi]
         THEN [found |-> TRUE, var |-> named_vars[mi][name_for(mi, key)]]
         ELSE [found |-> FALSE, var |-> 0]

\* The registry as one value, so that the steps of one operation compose.
Reg ==
    [named_vars |-> named_vars, free_RVs |-> free_RVs, observed_RVs |-> observed_RVs,
     deterministics |-> deterministics, auto_deterministics |-> auto_deterministics,
     potentials |-> potentials, rvs_to_values |-> rvs_to_values,
     values_to_rvs |-> values_to_rvs, coords |-> coords, dim_lengths |-> dim_lengths,
     RV_dims |-> RV_dims, vinfo |-> vinfo, warned |-> warned]

SetReg(R) ==
    /\ named_vars' = R.named_vars
    /\ free_RVs' = R.free_RVs
    /\ observed_RVs' = R.observed_RVs
    /\ deterministics' = R.deterministics
    /\ auto_deterministics' = R.auto_deterministics
    /\ potentials' = R.potentials
    /\ rvs_to_values' = R.rvs_to_values
    /\ values_to_rvs' = R.values_to_rvs
    /\ coords' = R.coords
    /\ dim_lengths' = R.dim_lengths
    /\ RV_dims' = R.RV_dims
    /\ vinfo' = R.vinfo
    /\ warned' = R.warned

Out(R, ok, err, var) == [R |-> R, ok |-> ok, err |-> err, var |-> var]

(***************************************************************************)
(* Graph variables.  A random variable is its generator's inputs: P, the   *)
(* shape the parameters broadcast to; supp, the shape of one draw; size,   *)
(* the size argument (empty: none).  A shared data variable is its current *)
(* value's shape P.  P and size are sequences of shape entries, supp is a  *)
(* sequence of integers; an entry is an integer constant, the length       *)
(* object of a dimension of a model, or an axis of the shape of another    *)
(* variable (a parameter that is itself a variable).                       *)
(***************************************************************************)
ConstE(n) == [k |-> "const", n |-> n, m |-> 0, d |-> NoneE, rv |-> 0, ax |-> 0]
LenE(mi, dname) == [k |-> "len", n |-> 0, m |-> mi, d |-> dname, rv |-> 0, ax |-> 0]
AxisE(rv, ax) == [k |-> "axis", n |-> 0, m |-> 0, d |-> NoneE, rv |-> rv, ax |-> ax]

ConstEs(q) == [i \in 1..Len(q) |-> ConstE(q[i])]

\* Observed data: none; a dense array of some shape; a variable that depends
\* on other nodes of the graph (it has an owner); a generator or minibatch
\* placeholder (GenTensorVariable, Minibatch); a variable without owner (a
\* shared variable, a constant); a scipy sparse matrix; a one-dimensional
\* masked array, mask[i] saying that entry i is missing.
NoData == [k |-> "none", shape |-> <<>>, mask |-> <<>>]
Dense(shape) == [k |-> "dense", shape |-> shape, mask |-> <<>>]
GraphData == [k |-> "graph", shape |-> <<>>, mask |-> <<>>]
Placeholder(shape) == [k |-> "placeholder", shape |-> shape, mask |-> <<>>]
Independent(shape) == [k |-> "independent", shape |-> shape, mask |-> <<>>]
Sparse(shape) == [k |-> "sparse", shape |-> shape, mask |-> <<>>]
Masked(mask) == [k |-> "masked", shape |-> <<Len(mask)>>, mask |-> mask]

\* rv.tag.observations: the data, whole or the entries idx of it.
NoObs == [data |-> NoData, whole |-> FALSE, idx |-> <<>>]
Whole(data) == [data |-> data, whole |-> TRUE, idx |-> <<>>]
Entries(data, idx) == [data |-> data, whole |-> FALSE, idx |-> idx]

\* A variable: obs is tag.observations; parts, for the expression that
\* recombines the two halves of partly missing data, says for every index
\* which entry of which variable is stored there.
NewVar(kind, P, supp, size) ==
    [name |-> <<>>, kind |-> kind, P |-> P, supp |-> supp, size |-> size,
     obs |-> NoObs, parts |-> <<>>]

transform_suffix(tr) == <<"_">> \o tr \o <<"_", "_">>

LogName == <<"l", "o", "g">>

\* Model.create_value_var (transform: <<>> for none, else the transform's name)
create_value_var(R, mi, rv, tr) ==
    LET value_id == Len(R.vinfo) + 1
        rv_name == R.vinfo[rv].name
        value_name == IF tr # <<>> THEN rv_name \o transform_suffix(tr) ELSE rv_name
        value_var == [R.vinfo[rv] EXCEPT !.name = value_name, !.kind = "value"]
        R1 == [R EXCEPT !.vinfo = Append(R.vinfo, value_var)]
        R2 == IF tr # <<>>
              THEN [R1 EXCEPT !.named_vars =
                        treedict_setitem(R1.named_vars, mi, value_name, value_id)]
              ELSE R1
    IN  [R2 EXCEPT !.rvs_to_values = treedict_setitem(R2.rvs_to_values, mi, rv, value_id),
                   !.values_to_rvs = treedict_setitem(R2.values_to_rvs, mi, value_id, rv)]

\* The name check of add_random_variable left out.
add_random_variable_unchecked(R, mi, var, dims) ==
    LET name == R.vinfo[var].name
        ds == IF dims.kind = "str" THEN Tup(dims.items) ELSE dims
    IN  IF ds.kind # "none"
           /\ ~(\A i \in 1..Len(ds.items) :
                    ds.items[i] \in DOMAIN R.coords[mi] \/ ds.items[i] = NoneE)
        THEN Out(R, FALSE, "AssertionError", var)
        ELSE LET R1 == IF ds.kind # "none"
                       THEN [R EXCEPT !.RV_dims[mi] = (name :> ds.items) @@ R.RV_dims[mi]]
                       ELSE R
             IN  Out([R1 EXCEPT !.named_vars =
                          treedict_setitem(R1.named_vars, mi, name, var)],
                     TRUE, "", var)

\* Model.add_random_variable
add_random_variable(R, mi, var, dims) ==
    IF tree_contains(R.named_vars, mi, R.vinfo[var].name)
    THEN Out(R, FALSE, "ValueError", var)
    ELSE add_random_variable_unchecked(R, mi, var, dims)

\* Number of dimensions of a random variable (aesara's RandomVariable: with a
\* size and scalar draws the output has the size's dimensions).
rv_ndim(v) ==
    IF v.size = <<>> THEN Len(v.P) + Len(v.supp)
    ELSE IF v.supp = <<>> THEN Len(v.size)
    ELSE Len(v.size) + Len(v.P) + Len(v.supp)

\* Deterministic(name, var, model, dims, auto), var an expression with the
\* given parts
deterministic_of(R, mi, name, dims, auto, shape, parts) ==
    LET var == Len(R.vinfo) + 1
        copy == [NewVar("det", shape, <<>>, <<>>) EXCEPT
                    !.name = name_for(mi, name), !.parts = parts]
        R1 == [R EXCEPT !.vinfo = Append(R.vinfo, copy)]
        R2 == IF auto
              THEN [R1 EXCEPT !.auto_deterministics =
                        treelist_append(R1.auto_deterministics, mi, var)]
              ELSE [R1 EXCEPT !.deterministics = treelist_append(R1.deterministics, mi, var)]
    IN  add_random_variable(R2, mi, var, dims)

\* Deterministic(name, var, model, dims, auto)
deterministic(R, mi, name, dims, auto) ==
    deterministic_of(R, mi, name, dims, auto, <<>>, <<>>)

\* register_rv, lines 1108-1115: data is None.
register_free(R, mi, rv, name, dims, tr) ==
    LET R1 == [R EXCEPT !.vinfo[rv].name = name_for(mi, name)]
        R2 == [R1 EXCEPT !.free_RVs = treelist_append(R1.free_RVs, mi, rv)]
    IN  add_random_variable(create_value_var(R2, mi, rv, tr), mi, rv, dims)

\* mask.nonzero() for b = TRUE, (~mask).nonzero() for b = FALSE: the indices
\* i with mask[i] = b, in order.
Where(mask, b) ==
    LET S == {i \in 1..Len(mask) : mask[i] = b}
    IN  [k \in 1..Cardinality(S) |->
            CHOOSE i \in S : Cardinality({j \in S : j < i}) = k - 1]

\* rv[idx] lifted through the generator (local_subtensor_rv_lift): a random
\* variable of the same distribution with one entry per index.
subtensor_rv(v, idx) ==
    IF v.size # <<>>
    THEN NewVar("rv", v.P, v.supp, <<ConstE(Len(idx))>>)
    ELSE NewVar("rv", <<ConstE(Len(idx))>>, v.supp, <<>>)

Missing == <<"_", "m", "i", "s", "s", "i", "n", "g">>
Observed == <<"_", "o", "b", "s", "e", "r", "v", "e", "d">>

\* set_subtensors with the two halves written one after the other instead of
\* each at its own indices.
set_subtensors_concat(mask, missing, observed) ==
    LET m == Cardinality({j \in 1..Len(mask) : mask[j]})
    IN  [i \in 1..Len(mask) |->
            IF i <= m THEN [rv |-> missing, at |-> i] ELSE [rv |-> observed, at |-> i - m]]

\* at.zeros(data.shape) with the entries of missing set at mask.nonzero() and
\* those of observed at antimask_idx (lines 1225-1227).
set_subtensors(mask, missing, observed) ==
    [i \in 1..Len(mask) |->
        [rv |-> IF mask[i] THEN missing ELSE observed,
         at |-> Cardinality({j \in 1..i : mask[j] = mask[i]})]]

\* make_obs_var, lines 1205-1228: missing is registered.
make_obs_unmasked(R, mi, rv, name, data, dims, tr, missing) ==
    LET observed == Len(R.vinfo) + 1
        antimask_idx == Where(data.mask, FALSE)
        v == [subtensor_rv(R.vinfo[rv], antimask_idx) EXCEPT
                !.name = name \o Observed, !.obs = Entries(data, antimask_idx)]
        R1 == [R EXCEPT !.vinfo = Append(R.vinfo, v)]
        o == add_random_variable(create_value_var(R1, mi, observed, tr), mi, observed, dims)
    IN  IF ~o.ok THEN o
        ELSE deterministic_of(
                [o.R EXCEPT !.observed_RVs = treelist_append(o.R.observed_RVs, mi, observed)],
                mi, name, dims, TRUE, ConstEs(data.shape),
                set_subtensors(data.mask, missing, observed))

\* make_obs_masked without the return of line 1175 for a mask that is all
\* True.
make_obs_masked_split(R, mi, rv, data, dims, tr) ==
    LET name == R.vinfo[rv].name
        missing == Len(R.vinfo) + 1
        v == subtensor_rv(R.vinfo[rv], Where(data.mask, TRUE))
        R1 == [R EXCEPT !.warned = Append(R.warned, name),
                        !.vinfo = Append(R.vinfo, v)]
        o == register_free(R1, mi, missing, name \o Missing, None, tr)
    IN  IF ~o.ok THEN o
        ELSE make_obs_unmasked(o.R, mi, rv, name, data, dims, tr, missing)

\* make_obs_var, lines 1169-1228: data is a masked array.
make_obs_masked(R, mi, rv, data, dims, tr) ==
    IF \A i \in 1..Len(data.mask) : data.mask[i] THEN Out(R, TRUE, "", rv)
    ELSE LET name == R.vinfo[rv].name
             missing == Len(R.vinfo) + 1
             v == subtensor_rv(R.vinfo[rv], Where(data.mask, TRUE))
             R1 == [R EXCEPT !.warned = Append(R.warned, name),
                             !.vinfo = Append(R.vinfo, v)]
             o == register_free(R1, mi, missing, name \o Missing, None, tr)
         IN  IF ~o.ok THEN o
             ELSE make_obs_unmasked(o.R, mi, rv, name, data, dims, tr, missing)

\* Model.make_obs_var
make_obs_var(R, mi, rv, data, dims, tr) ==
    IF Len(data.shape) # rv_ndim(R.vinfo[rv]) THEN Out(R, FALSE, "ShapeError", rv)
    ELSE IF data.k = "masked" THEN make_obs_masked(R, mi, rv, data, dims, tr)
    ELSE LET R1 == [R EXCEPT !.vinfo[rv].obs = Whole(data)]
             o == add_random_variable(create_value_var(R1, mi, rv, tr), mi, rv, dims)
         IN  IF ~o.ok THEN o
             ELSE Out([o.R EXCEPT !.observed_RVs = treelist_append(o.R.observed_RVs, mi, rv)],
                      TRUE, "", rv)

\* register_rv without the check of lines 1117-1125: data that depends on
\* other nodes goes on to make_obs_var.
register_rv_anydata(R, mi, rv, name, data, dims, tr) ==
    LET R1 == [R EXCEPT !.vinfo[rv].name = name_for(mi, name)]
    IN  IF data.k = "none" THEN register_free(R, mi, rv, name, dims, tr)
        ELSE make_obs_var(R1, mi, rv, data, dims, tr)

\* register_rv without create_value_var.
register_rv_novalue(R, mi, rv, name, data, dims, tr) ==
    LET R1 == [R EXCEPT !.vinfo[rv].name = name_for(mi, name)]
    IN  IF data.k = "none"
        THEN LET R2 == [R1 EXCEPT !.free_RVs = treelist_append(R1.free_RVs, mi, rv)]
             IN  add_random_variable(R2, mi, rv, dims)
        ELSE IF data.k = "graph" THEN Out(R1, FALSE, "TypeError", rv)
        ELSE make_obs_var(R1, mi, rv, data, dims, tr)

\* Model.register_rv; rv is the id of the variable handed in.
register_rv(R, mi, rv, name, data, dims, tr) ==
    LET R1 == [R EXCEPT !.vinfo[rv].name = name_for(mi, name)]
    IN  IF data.k = "none" THEN register_free(R, mi, rv, name, dims, tr)
        ELSE IF data.k = "graph" THEN Out(R1, FALSE, "TypeError", rv)
        ELSE make_obs_var(R1, mi, rv, data, dims, tr)

\* Potential(name, var, model)
potential(R, mi, name) ==
    LET var == Len(R.vinfo) + 1
        v == [NewVar("pot", <<>>, <<>>, <<>>) EXCEPT !.name = name_for(mi, name)]
        R1 == [R EXCEPT !.vinfo = Append(R.vinfo, v)]
        R2 == [R1 EXCEPT !.potentials = treelist_append(R1.potentials, mi, var)]
    IN  add_random_variable(R2, mi, var, None)

(***************************************************************************)
(* Coordinates.  values: None, a pandas Index (it has .equals) or a plain  *)
(* list, of some labels.  length: a length object, or absent.              *)
(***************************************************************************)
NoValues == [k |-> "none", v |-> <<>>]
IndexValues(v) == [k |-> "index", v |-> v]
ListValues(v) == [k |-> "list", v |-> v]

NoLength == [k |-> "none", n |-> 0, rv |-> 0, ax |-> 0]
Shared(n) == [k |-> "shared", n |-> n, rv |-> 0, ax |-> 0]
AxisOf(rv, ax) == [k |-> "axis", n |-> 0, rv |-> rv, ax |-> ax]
NotAVariable(n) == [k |-> "int", n |-> n, rv |-> 0, ax |-> 0]

ReservedDims == {StrE("draw"), StrE("chain"), StrE("__sample__")}

\* add_coord without the check for reserved names.
add_coord_unreserved(R, mi, name, values, length) ==
    IF values.k = "none" /\ length.k = "none" THEN Out(R, FALSE, "ValueError", 0)
    ELSE IF length.k = "int" THEN Out(R, FALSE, "ValueError", 0)
    ELSE IF name \in DOMAIN R.coords[mi]
         THEN IF values.k # "index" THEN Out(R, FALSE, "AttributeError", 0)
              ELSE IF values # R.coords[mi][name] THEN Out(R, FALSE, "ValueError", 0)
              ELSE Out(R, TRUE, "", 0)
         ELSE Out([R EXCEPT
                      !.coords[mi] = (name :> values) @@ R.coords[mi],
                      !.dim_lengths[mi] =
                          (name :> IF length.k # "none" THEN length
                                   ELSE Shared(Len(values.v))) @@ R.dim_lengths[mi]],
                  TRUE, "", 0)

\* Model.add_coord
add_coord(R, mi, name, values, length) ==
    IF name \in ReservedDims THEN Out(R, FALSE, "ValueError", 0)
    ELSE IF values.k = "none" /\ length.k = "none" THEN Out(R, FALSE, "ValueError", 0)
    ELSE IF length.k = "int" THEN Out(R, FALSE, "ValueError", 0)
    ELSE IF name \in DOMAIN R.coords[mi]
         THEN IF values.k # "index" THEN Out(R, FALSE, "AttributeError", 0)
              ELSE IF values # R.coords[mi][name] THEN Out(R, FALSE, "ValueError", 0)
              ELSE Out(R, TRUE, "", 0)
         ELSE Out([R EXCEPT
                      !.coords[mi] = (name :> values) @@ R.coords[mi],
                      !.dim_lengths[mi] =
                          (name :> IF length.k # "none" THEN length
                                   ELSE Shared(Len(values.v))) @@ R.dim_lengths[mi]],
                  TRUE, "", 0)

RECURSIVE coord_shapes(_, _)
\* np.shape of each named coordinate, concatenated (np.shape(None) is ()).
coord_shapes(mi, dims) ==
    IF dims = <<>> THEN <<>>
    ELSE (IF coords[mi][dims[1]].k = "none" THEN <<>>
          ELSE <<Len(coords[mi][dims[1]].v)>>) \o coord_shapes(mi, Tail(dims))

\* Model.shape_from_dims: [ok, shape]
shape_from_dims(mi, dims) ==
    IF \E i, j \in 1..Len(dims) : i # j /\ dims[i] = dims[j]
    THEN [ok |-> FALSE, shape |-> <<>>]
    ELSE IF \E i \in 1..Len(dims) : dims[i] \notin DOMAIN coords[mi]
    THEN [ok |-> FALSE, shape |-> <<>>]
    ELSE [ok |-> TRUE, shape |-> coord_shapes(mi, dims)]

(***************************************************************************)
(* distribution.py: Distribution.dist and Distribution.__new__             *)
(***************************************************************************)
Min(a, b) == IF a < b THEN a ELSE b
Max(a, b) == IF a > b THEN a ELSE b

\* Python's s[:k] and s[k:], k possibly negative or beyond the end.
SliceTo(s, k) ==
    IF k >= 0 THEN SubSeq(s, 1, Min(k, Len(s))) ELSE SubSeq(s, 1, Max(Len(s) + k, 0))
SliceFrom(s, k) ==
    IF k >= 0 THEN SubSeq(s, Min(k, Len(s)) + 1, Len(s))
    ELSE SubSeq(s, Max(Len(s) + k, 0) + 1, Len(s))

\* The symbolic shape of a random variable (aesara's RandomVariable).
rv_shape(v) ==
    IF v.size = <<>> THEN v.P \o ConstEs(v.supp)
    ELSE IF v.supp = <<>> THEN v.size
    ELSE v.size \o v.P \o ConstEs(v.supp)

\* The integers of a sequence of elements.
Ints(q) == [i \in 1..Len(q) |-> q[i].n]
AllInts(q) == \A i \in 1..Len(q) : q[i].t = "int"

\* rv_op(*dist_params, size=size): size is None or a tuple of elements; only
\* integers and length objects convert to a size vector.
rv_op(P, supp, size) ==
    IF size.kind = "none" THEN [ok |-> TRUE, rv |-> NewVar("rv", P, supp, <<>>)]
    ELSE IF ~AllInts(size.items) THEN [ok |-> FALSE, rv |-> NewVar("rv", P, supp, <<>>)]
    ELSE [ok |-> TRUE, rv |-> NewVar("rv", P, supp, ConstEs(Ints(size.items)))]

\* pymc3.aesaraf.change_rv_size(rv_var, new_size, expand=True): the new
\* dimensions are put in front of the ones the variable already has.
change_rv_size(v, new_size) ==
    LET size == IF v.supp = <<>> /\ v.size = <<>> THEN v.P ELSE v.size
    IN  [v EXCEPT !.size = new_size \o size]

\* dist with the size= argument dropped: only shape= reaches the generator.
dist_size_dropped(P, supp, shape, size) ==
    LET r == rv_op(P, supp, ToTuple(shape))
    IN  [ok |-> r.ok, err |-> IF r.ok THEN "" ELSE "TypeError", rv |-> r.rv, warn |-> FALSE]

DistOut(ok, err, rv, warn) == [ok |-> ok, err |-> err, rv |-> rv, warn |-> warn]

\* dist, lines 416-422: the dimensionality check that ends the fallback.
dist_checked(rv, ndim_expected) ==
    IF rv_ndim(rv) # ndim_expected THEN DistOut(FALSE, "ShapeError", rv, FALSE)
    ELSE DistOut(TRUE, "", rv, FALSE)

\* dist, lines 414-415: expand by the leading shape entries.
dist_expanded(rv, expand_shape, ndim_expected) ==
    IF ~AllInts(expand_shape) THEN DistOut(FALSE, "TypeError", rv, FALSE)
    ELSE dist_checked(change_rv_size(rv, ConstEs(Ints(expand_shape))), ndim_expected)

\* dist, lines 407-422: rv is the variable recreated with size=None.
dist_fallback(rv, shape, ndim_expected) ==
    IF rv_ndim(rv) < ndim_expected
    THEN dist_expanded(rv, SliceTo(shape, ndim_expected - rv_ndim(rv)), ndim_expected)
    ELSE dist_checked(rv, ndim_expected)

\* dist_created with a size-driven mismatch treated like a shape-driven one:
\* it raises ShapeError instead of warning.
dist_created_size_strict(P, supp, v, ndim_expected, r) ==
    IF ~r.ok THEN DistOut(FALSE, "TypeError", r.rv, FALSE)
    ELSE IF v.shape.kind # "none" /\ rv_ndim(r.rv) # ndim_expected
    THEN dist_fallback(NewVar("rv", P, supp, <<>>), v.shape.items, ndim_expected)
    ELSE IF v.size.kind # "none" /\ rv_ndim(r.rv) # ndim_expected
    THEN DistOut(FALSE, "ShapeError", r.rv, FALSE)
    ELSE DistOut(TRUE, "", r.rv, FALSE)

\* dist, lines 403-436: r is what rv_op made of create_size.
dist_created(P, supp, v, ndim_expected, r) ==
    IF ~r.ok THEN DistOut(FALSE, "TypeError", r.rv, FALSE)
    ELSE IF v.shape.kind # "none" /\ rv_ndim(r.rv) # ndim_expected
    THEN dist_fallback(NewVar("rv", P, supp, <<>>), v.shape.items, ndim_expected)
    ELSE DistOut(TRUE, "", r.rv, v.size.kind # "none" /\ rv_ndim(r.rv) # ndim_expected)

\* dist, lines 387-403: v is the validated (shape, size); ndim_expected is -1
\* where the code has None.
dist_validated(P, supp, v) ==
    IF ~v.ok THEN DistOut(FALSE, v.err, NewVar("rv", P, supp, <<>>), FALSE)
    ELSE IF v.shape.kind # "none"
    THEN dist_created(P, supp, v, Len(v.shape.items),
                      rv_op(P, supp,
                            Tup(SliceTo(v.shape.items, Len(v.shape.items) - Len(supp)))))
    ELSE IF v.size.kind # "none"
    THEN dist_created(P, supp, v, Len(supp) + Len(v.size.items), rv_op(P, supp, v.size))
    ELSE dist_created(P, supp, v, -1, rv_op(P, supp, None))

\* Distribution.dist: [ok, err, rv, warn]
dist(P, supp, shape, size) ==
    dist_validated(P, supp, validate_shape_dims_size(shape, None, size))

\* _resize_from_dims: [ok, ndim_resize, resize_shape, dims]
resize_from_dims(R, mi, dims, ndim_implied) ==
    LET full == IF HasEllipsis(dims)
                THEN Front(dims) \o [i \in 1..ndim_implied |-> NoneE]
                ELSE dims
        ndim_resize == Len(full) - ndim_implied
        resize_dims == SliceTo(full, ndim_resize)
    IN  IF \E i \in 1..Len(resize_dims) : resize_dims[i] \notin DOMAIN R.dim_lengths[mi]
        THEN [ok |-> FALSE, ndim_resize |-> ndim_resize, resize_shape |-> <<>>, dims |-> full]
        ELSE [ok |-> TRUE, ndim_resize |-> ndim_resize,
              resize_shape |-> [i \in 1..Len(resize_dims) |-> LenE(mi, resize_dims[i])],
              dims |-> full]

\* _resize_from_observed: [ndim_resize, resize_shape]
resize_from_observed(data, ndim_implied) ==
    LET ndim_resize == Len(data.shape) - ndim_implied
    IN  [ok |-> TRUE, ndim_resize |-> ndim_resize,
         resize_shape |-> [d \in 1..Max(ndim_resize, 0) |-> ConstE(data.shape[d])],
         dims |-> <<>>]

\* Python's s[k] (0-based, negative from the end): [ok, i] with i the 1-based index.
Index(s, k) ==
    IF k >= 0 THEN [ok |-> k < Len(s), i |-> k + 1]
    ELSE [ok |-> Len(s) + k >= 0, i |-> Len(s) + k + 1]

RECURSIVE register_implied_dims(_, _, _, _, _, _)
\* Distribution.__new__, lines 341-346: the loop over dims[ndim_resize:].
register_implied_dims(R, mi, rv, dims, ndim_resize, di) ==
    LET rest == SliceFrom(dims, ndim_resize)
    IN  IF di >= Len(rest) THEN Out(R, TRUE, "", rv)
        ELSE LET dname == rest[di + 1]
                 ax == Index(rv_shape(R.vinfo[rv]), ndim_resize + di)
             IN  IF dname \in DOMAIN R.dim_lengths[mi]
                 THEN register_implied_dims(R, mi, rv, dims, ndim_resize, di + 1)
                 ELSE IF ~ax.ok THEN Out(R, FALSE, "IndexError", rv)
                 ELSE LET o == add_coord(R, mi, dname, NoValues, AxisOf(rv, ax.i))
                      IN  IF ~o.ok THEN Out(o.R, FALSE, o.err, rv)
                          ELSE register_implied_dims(o.R, mi, rv, dims, ndim_resize, di + 1)

NoResize == [ok |-> TRUE, ndim_resize |-> 0, resize_shape |-> <<>>, dims |-> <<>>]

\* __new__, line 352: o is the outcome of the steps before the registration.
new_registered(o, mi, name, dims, data, tr) ==
    IF ~o.ok THEN o ELSE register_rv(o.R, mi, o.var, name, data, dims, tr)

\* __new__, lines 341-352: the resized variable is the last one of R.vinfo.
new_resized(R, mi, name, has_dims, rs, data, tr) ==
    new_registered(IF has_dims
                   THEN register_implied_dims(R, mi, Len(R.vinfo), rs.dims,
                                              rs.ndim_resize, 0)
                   ELSE Out(R, TRUE, "", Len(R.vinfo)),
                   mi, name, IF has_dims THEN Tup(rs.dims) ELSE None, data, tr)

\* __new__, lines 337-339: rs is the resize that dims or observed ask for.
new_sized(R, mi, name, has_dims, rv, rs, data, tr) ==
    IF ~rs.ok THEN Out(R, FALSE, "KeyError", 0)
    ELSE new_resized([R EXCEPT !.vinfo =
                          Append(R.vinfo, IF rs.resize_shape # <<>>
                                          THEN change_rv_size(rv, rs.resize_shape)
                                          ELSE rv)],
                     mi, name, has_dims, rs, data, tr)

\* __new__, lines 322-335: vd is the validated dims, d the outcome of dist.
new_created(R, mi, name, vd, d, data, tr) ==
    IF ~vd.ok THEN Out(R, FALSE, vd.err, 0)
    ELSE IF ~d.ok THEN Out(R, FALSE, d.err, 0)
    ELSE new_sized(R, mi, name, vd.dims.kind # "none", d.rv,
                   IF vd.dims.kind # "none"
                   THEN resize_from_dims(R, mi, vd.dims.items, rv_ndim(d.rv))
                   ELSE IF data.k # "none" THEN resize_from_observed(data, rv_ndim(d.rv))
                   ELSE NoResize,
                   data, tr)

\* Distribution.__new__ in the context of model mi.
distribution_new(R, mi, name, P, supp, shape, dims, size, data, tr) ==
    new_created(R, mi, name, validate_shape_dims_size(None, dims, None),
                dist(P, supp, shape, size), data, tr)

RECURSIVE eval_entry(_, _)
\* The value a shape entry evaluates to: a constant, the current length of
\* an axis of a variable, or the current length of the dimension it refers
\* to (itself a shared scalar or an axis of a variable).
eval_entry(R, e) ==
    IF e.k = "const" THEN e.n
    ELSE IF e.k = "axis" THEN eval_entry(R, rv_shape(R.vinfo[e.rv])[e.ax])
    ELSE LET l == R.dim_lengths[e.m][e.d]
         IN  IF l.k = "shared" THEN l.n
             ELSE eval_entry(R, rv_shape(R.vinfo[l.rv])[l.ax])

\* rv.eval().shape
eval_shape(R, v) == [i \in 1..Len(rv_shape(v)) |-> eval_entry(R, rv_shape(v)[i])]

\* Drawing succeeds: with scalar draws and a size, the parameters must
\* broadcast to the size (numpy's rule for the generators).
eval_ok(R, v) ==
    \/ v.size = <<>>
    \/ v.supp # <<>>
    \/ /\ Len(v.P) <= Len(v.size)
       /\ \A i \in 1..Len(v.P) :
            eval_entry(R, v.P[i])
                \in {1, eval_entry(R, v.size[Len(v.size) - Len(v.P) + i])}

(***************************************************************************)
(* Operations on models                                                    *)
(***************************************************************************)
A == <<"a">>
X == <<"x">>
AX == <<"a", "_", "x">>
XLog == <<"x", "_", "l", "o", "g", "_", "_">>

ModelNames == {<<>>, A}
VarNames == {X, AX, XLog}
Transforms == {<<>>, LogName}
DimNames == {StrE("b"), StrE("p")}
Labels2 == <<1, 2>>
Labels3 == <<1, 2, 3>>

\* Model(name, model=parent): a model nested in an existing one.
NewModel(name, parent) ==
    /\ Len(models) < MaxModels
    /\ parent \in 1..Len(models)
    /\ models' = Append(models, [name |-> name, parent |-> parent])
    /\ named_vars' = Append(named_vars, <<>>)
    /\ free_RVs' = Append(free_RVs, <<>>)
    /\ observed_RVs' = Append(observed_RVs, <<>>)
    /\ deterministics' = Append(deterministics, <<>>)
    /\ auto_deterministics' = Append(auto_deterministics, <<>>)
    /\ potentials' = Append(potentials, <<>>)
    /\ rvs_to_values' = Append(rvs_to_values, <<>>)
    /\ values_to_rvs' = Append(values_to_rvs, <<>>)
    /\ coords' = Append(coords, <<>>)
    /\ dim_lengths' = Append(dim_lengths, <<>>)
    /\ RV_dims' = Append(RV_dims, <<>>)
    /\ last' = [NoLast EXCEPT !.op = "Model", !.model = Len(models) + 1, !.given = name,
                              !.ok = TRUE]
    /\ UNCHANGED <<vinfo, warned, nops>>
    /\ UNCHANGED <<ctxvars, shapevars>>

\* An operation on model mi ends with outcome o.
Finish(o, l) ==
    /\ SetReg(o.R)
    /\ last' = [l EXCEPT !.var = o.var, !.ok = o.ok, !.err = o.err]
    /\ UNCHANGED models
    /\ UNCHANGED <<ctxvars, shapevars>>

\* model.register_rv(rv, name, data, dims=dims, transform=tr) on a fresh scalar
\* variable.
RegisterRV(mi, name, tr, data, dims) ==
    /\ nops < MaxRegs
    /\ nops' = nops + 1
    /\ LET rv == Len(vinfo) + 1
           R0 == [Reg EXCEPT !.vinfo = Append(vinfo, NewVar("rv", <<>>, <<>>, <<>>))]
       IN  Finish(register_rv(R0, mi, rv, name, data, dims, tr),
                  [NoLast EXCEPT !.op = "register_rv", !.model = mi, !.given = name,
                                 !.name = name_for(mi, name), !.tr = tr, !.data = data,
                                 !.dims = dims])

Deterministic(mi, name, auto) ==
    /\ nops < MaxRegs
    /\ nops' = nops + 1
    /\ Finish(deterministic(Reg, mi, name, None, auto),
              [NoLast EXCEPT !.op = "Deterministic", !.model = mi, !.given = name,
                             !.name = name_for(mi, name)])

Potential(mi, name) ==
    /\ nops < MaxRegs
    /\ nops' = nops + 1
    /\ Finish(potential(Reg, mi, name),
              [NoLast EXCEPT !.op = "Potential", !.model = mi, !.given = name,
                             !.name = name_for(mi, name)])

\* model.add_coord(name, values, length=length)
AddCoord(mi, name, values, length) ==
    /\ Finish(add_coord(Reg, mi, name, values, length),
              [NoLast EXCEPT !.op = "add_coord", !.model = mi, !.dim = name,
                             !.values = values, !.length = length])
    /\ UNCHANGED nops

\* cls(name, *params, shape=, dims=, size=, observed=, transform=) inside
\* `with model:` for model mi.
DistributionNew(mi, name, params, shape, dims, size, data, tr) ==
    /\ nops < MaxRVs
    /\ nops' = nops + 1
    /\ Finish(distribution_new(Reg, mi, name, ConstEs(params.P), params.supp, shape, dims,
                               size, data, tr),
              [NoLast EXCEPT !.op = "Distribution", !.model = mi, !.given = name,
                             !.name = name_for(mi, name), !.tr = tr, !.P = params.P,
                             !.supp = params.supp, !.shape = shape, !.dims = dims,
                             !.size = size, !.data = data])

(***************************************************************************)
(* SpecReg: a parent model, nested children, and registrations in them     *)
(***************************************************************************)
\* (name, transform, observed data, dims) of a register_rv call; the models of
\* this specification have no coordinates, so that a dimension name in dims
\* is an unknown one.
RegisterArgs ==
    {<<name, tr, NoData, None>> : name \in VarNames, tr \in Transforms}
        \cup {<<name, (<<>>), data, None>> :
                    name \in VarNames, data \in {Dense(<<>>), GraphData}}
        \cup {<<X, (<<>>), NoData, dims>> : dims \in {Tup(<<NoneE>>), Tup(<<StrE("b")>>)}}

NextReg ==
    \/ \E name \in ModelNames, parent \in 1..MaxModels : NewModel(name, parent)
    \/ \E mi \in DOMAIN models, a \in RegisterArgs :
            RegisterRV(mi, a[1], a[2], a[3], a[4])
    \/ \E mi \in DOMAIN models, name \in VarNames : Deterministic(mi, name, FALSE)
    \/ \E mi \in DOMAIN models, name \in VarNames : Potential(mi, name)

SpecReg == Init /\ [][NextReg]_vars

(***************************************************************************)
(* SpecCoord: coordinates added to the models of a hierarchy               *)
(***************************************************************************)
\* (name, values, length) of an add_coord call
CoordArgs ==
    {<<name, a[1], a[2]>> :
        name \in DimNames,
        a \in {<<NoValues, NoLength>>, <<NoValues, Shared(2)>>,
               <<IndexValues(Labels2), NoLength>>, <<IndexValues(Labels3), NoLength>>,
               <<ListValues(Labels2), NoLength>>,
               <<IndexValues(Labels2), NotAVariable(2)>>}}
        \cup {<<StrE("draw"), IndexValues(Labels2), NoLength>>}

\* model.shape_from_dims(dims)
ShapeFromDims(mi, dims) ==
    /\ last' = [NoLast EXCEPT !.op = "shape_from_dims", !.model = mi, !.dims = Tup(dims),
                              !.ok = shape_from_dims(mi, dims).ok,
                              !.err = IF shape_from_dims(mi, dims).ok THEN ""
                                      ELSE "ValueError",
                              !.out = shape_from_dims(mi, dims).shape]
    /\ UNCHANGED <<models, named_vars, free_RVs, observed_RVs, deterministics,
                   auto_deterministics, potentials, rvs_to_values, values_to_rvs, coords,
                   dim_lengths, RV_dims, vinfo, warned, nops>>
    /\ UNCHANGED <<ctxvars, shapevars>>

NextCoord ==
    \/ \E name \in ModelNames, parent \in 1..MaxModels : NewModel(name, parent)
    \/ \E mi \in DOMAIN models, a \in CoordArgs : AddCoord(mi, a[1], a[2], a[3])
    \/ \E mi \in DOMAIN models, dims \in SeqsUpTo(DimNames, MaxLen) :
            ShapeFromDims(mi, dims)

SpecCoord == Init /\ [][NextCoord]_vars

(***************************************************************************)
(* SpecDist: random variables created in a model with coordinates          *)
(***************************************************************************)
\* Normal(mu: scalar), Normal(mu: vector of 3), MvNormal(mu: 2 x 3, cov: 3 x 3)
DistParams == {[P |-> <<>>, supp |-> <<>>], [P |-> <<3>>, supp |-> <<>>],
               [P |-> <<2>>, supp |-> <<3>>]}
Sizes == SeqsUpTo({IntE(2), IntE(3)}, MaxRank)
ShapeArgs == {Tup(q) : q \in Sizes} \cup {Tup(<<Ell>>), Tup(<<IntE(2), Ell>>)}
SizeArgs == {Tup(q) : q \in Sizes}
DimsArgs == {Tup(q) : q \in SeqsUpTo(DimNames \cup {Ell}, MaxRank)}
DistArgs ==
    {<<None, None, None>>}
        \cup {<<s, None, None>> : s \in ShapeArgs}
        \cup {<<None, d, None>> : d \in DimsArgs}
        \cup {<<None, None, z>> : z \in SizeArgs}

\* Model(coords=c): __init__ hands c to add_coords, which gives every
\* dimension a shared length.
ModelCoords ==
    {<<>>,
     (StrE("b") :> IndexValues(Labels2)),
     (StrE("b") :> IndexValues(Labels2)) @@ (StrE("p") :> IndexValues(Labels3)),
     (StrE("b") :> IndexValues(Labels3)) @@ (StrE("p") :> IndexValues(Labels3))}

InitDist ==
    /\ CtxInit
    /\ ShapeIdle
    /\ models = <<[name |-> <<>>, parent |-> 0]>>
    /\ named_vars = << <<>> >>
    /\ free_RVs = << <<>> >>
    /\ observed_RVs = << <<>> >>
    /\ deterministics = << <<>> >>
    /\ auto_deterministics = << <<>> >>
    /\ potentials = << <<>> >>
    /\ rvs_to_values = << <<>> >>
    /\ values_to_rvs = << <<>> >>
    /\ \E c \in ModelCoords :
        /\ coords = <<c>>
        /\ dim_lengths = <<[d \in DOMAIN c |-> Shared(Len(c[d].v))]>>
    /\ RV_dims = << <<>> >>
    /\ vinfo = <<>>
    /\ warned = <<>>
    /\ last = NoLast
    /\ nops = 0

NextDist ==
    \/ \E params \in DistParams, a \in DistArgs :
            DistributionNew(1, X, params, a[1], a[2], a[3], NoData, <<>>)
    \/ \E params \in DistParams :
            DistributionNew(1, X, params, None, None, None, Dense(<<2>>), <<>>)

SpecDist == InitDist /\ [][NextDist]_vars

(***************************************************************************)
(* Registry: claims                                                        *)
(***************************************************************************)
RegOps == {"register_rv", "Deterministic", "Potential"}

\* C5: registrations never replace an entry of named_vars, and an attempt to
\* register a name that is already present (the variable's name, or the name
\* of its transformed value variable) fails.
C5_NamesUnique ==
    [][/\ \A mi \in DOMAIN named_vars : \A k \in DOMAIN named_vars[mi] :
            k \in DOMAIN named_vars'[mi] /\ named_vars'[mi][k] = named_vars[mi][k]
       /\ (last'.op \in RegOps /\ nops' # nops) =>
            /\ tree_contains(named_vars, last'.model, last'.name) => ~last'.ok
            /\ (last'.tr # <<>>
                /\ tree_contains(named_vars, last'.model,
                                 last'.name \o transform_suffix(last'.tr))) => ~last'.ok
      ]_vars

\* The last operation registered a variable in a named model whose parent is
\* unnamed.
C6Case ==
    /\ last.op \in RegOps
    /\ last.ok
    /\ models[last.model].name # <<>>
    /\ models[last.model].parent # 0
    /\ models[models[last.model].parent].name = <<>>

\* The variable of the last operation is the entry q of the child's and of the
\* parent's named_vars, and model[q] finds it in both.
C6Stored(q) ==
    LET c == last.model
        p == models[c].parent
        hit == [found |-> TRUE, var |-> last.var]
    IN  /\ q \in DOMAIN named_vars[p] /\ named_vars[p][q] = last.var
        /\ q \in DOMAIN named_vars[c] /\ named_vars[c][q] = last.var
        /\ getitem(p, q) = hit
        /\ getitem(c, q) = hit

\* child[n], n the name given, finds the variable of the last operation.
C6ByGiven == getitem(last.model, last.given) = [found |-> TRUE, var |-> last.var]

\* C6 as stated: whatever the name n given in child p, the variable is stored
\* under p_n and the child finds it under n.
C6_AlwaysPrefixed ==
    C6Case => C6Stored(prefix(last.model) \o last.given) /\ C6ByGiven

\* The name the registration of the last operation stores: n itself if it
\* starts with "p_", else p_n.
C6Name ==
    IF StartsWith(last.given, prefix(last.model)) THEN last.given
    ELSE prefix(last.model) \o last.given

\* C6: a name n that does not start with "p_" is stored under p_n, a name that
\* already starts with "p_" is stored unchanged; the variable is found under
\* the stored name in both registries, and in the child under n unless the
\* child's registry holds another entry named n.
C6_Prefixed ==
    C6Case =>
        /\ C6Stored(C6Name)
        /\ (last.given = C6Name \/ last.given \notin DOMAIN named_vars[last.model])
                => C6ByGiven

\* A random variable x has been registered in child a of the unnamed root and
\* is stored as a_x.
C6_Witness ==
    /\ C6Case
    /\ last.op = "register_rv"
    /\ last.given = X
    /\ AX \in DOMAIN named_vars[1]
    /\ named_vars[1][AX] = last.var

\* C7: a model and its parent know the same dimension names, in coords and
\* in dim_lengths.
C7_CoordsShared ==
    \A mi \in DOMAIN models :
        models[mi].parent # 0 =>
            /\ DOMAIN coords[mi] = DOMAIN coords[models[mi].parent]
            /\ DOMAIN dim_lengths[mi] = DOMAIN dim_lengths[models[mi].parent]

IsSuffix(P, s) == Len(P) <= Len(s) /\ SubSeq(s, Len(s) - Len(P) + 1, Len(s)) = P
DimLengths(mi, q) == [i \in 1..Len(q) |-> eval_entry(Reg, LenE(mi, q[i]))]

\* The last operation produced a variable with Len(s) dimensions that
\* evaluates to an array of shape s.
C10Produced(s) ==
    /\ last.var # 0
    /\ rv_ndim(vinfo[last.var]) = Len(s)
    /\ eval_ok(Reg, vinfo[last.var])
    /\ eval_shape(Reg, vinfo[last.var]) = s

\* C10: for an unobserved scalar distribution with parameters of shape P,
\* shape = s, size = s and dims naming dimensions of lengths s, with s = B + P
\* for some B, each produce a variable of Len(s) dimensions and evaluated
\* shape s.
C10_ShapeRoundTrip ==
    (last.op = "Distribution" /\ last.supp = <<>> /\ last.data.k = "none") =>
        /\ (/\ last.shape.kind = "tuple"
            /\ AllInts(last.shape.items)
            /\ IsSuffix(last.P, Ints(last.shape.items)))
                => C10Produced(Ints(last.shape.items))
        /\ (/\ last.size.kind = "tuple"
            /\ AllInts(last.size.items)
            /\ IsSuffix(last.P, Ints(last.size.items)))
                => C10Produced(Ints(last.size.items))
        /\ (/\ last.dims.kind = "tuple"
            /\ \A i \in 1..Len(last.dims.items) :
                    last.dims.items[i] \in DOMAIN dim_lengths[last.model]
            /\ IsSuffix(last.P, DimLengths(last.model, last.dims.items)))
                => C10Produced(DimLengths(last.model, last.dims.items))

\* Normal(mu of shape (3,), dims=("b", "p")) with b of length 2 and p of
\* length 3 has been created and evaluates to shape (2, 3).
C10_Witness ==
    /\ last.op = "Distribution"
    /\ last.ok
    /\ last.P = <<3>>
    /\ last.supp = <<>>
    /\ last.dims = Tup(<<StrE("b"), StrE("p")>>)
    /\ eval_shape(Reg, vinfo[last.var]) = <<2, 3>>


(***************************************************************************)
(* SpecFactory: Distribution.dist applied to enumerated arguments          *)
(***************************************************************************)
FactoryRank == MaxRank + 1

\* Normal(mu: scalar), Normal(mu: vector of 3), MvNormal(mu: 2 x 3, cov: 3 x 3),
\* MvNormal(mu: vector of 3, cov: 3 x 3)
FactoryParams == DistParams \cup {[P |-> <<>>, supp |-> <<3>>]}

FactoryItems == SeqsUpTo({IntE(2), IntE(3), Ell}, FactoryRank)

\* (shape, size) of a dist call
FactoryArgs ==
    {<<None, None>>, <<Tup(<<IntE(2)>>), Tup(<<IntE(2)>>)>>,
     <<[kind |-> "int", items |-> <<IntE(2)>>], None>>,
     <<None, [kind |-> "int", items |-> <<IntE(2)>>]>>}
        \cup {<<Tup(q), None>> : q \in FactoryItems}
        \cup {<<None, Tup(q)>> : q \in FactoryItems}

InitFactory ==
    /\ CtxInit
    /\ rin = <<None, None, None>>
    /\ rout = NoOut
    /\ \E p \in FactoryParams, a \in FactoryArgs :
            din = [P |-> p.P, supp |-> p.supp, shape |-> a[1], size |-> a[2]]
    /\ dout = NoDistOut
    /\ RegInit

\* cls.dist(*params, shape=, size=) outside any model.
Dist ==
    /\ ~dout.ran
    /\ LET d == dist(ConstEs(din.P), din.supp, din.shape, din.size)
       IN  dout' = [ran |-> TRUE, ok |-> d.ok, err |-> d.err, rv |-> d.rv,
                    warn |-> d.warn]
    /\ UNCHANGED <<rin, rout, din>>
    /\ UNCHANGED <<ctxvars, regvars>>

NextFactory == Dist

SpecFactory == InitFactory /\ [][NextFactory]_vars

(***************************************************************************)
(* Factory: claims                                                         *)
(***************************************************************************)
\* dist was called with shape alone and the resolver accepted it.
ShapeGiven ==
    /\ dout.ran
    /\ din.shape.kind # "none"
    /\ din.size.kind = "none"
    /\ valid_ellipsis_position(din.shape)

\* dist was called with size alone and the resolver accepted it.
SizeGiven ==
    /\ dout.ran
    /\ din.size.kind # "none"
    /\ din.shape.kind = "none"
    /\ ~HasEllipsis(din.size.items)

\* C11: a dist call with shape given (alone, accepted by the resolver) either
\* returns a variable of len(shape) dimensions or raises ShapeError, and never
\* emits a ShapeWarning.
C11_ShapeOutcome ==
    ShapeGiven =>
        /\ ~dout.warn
        /\ \/ dout.ok /\ rv_ndim(dout.rv) = Len(ToTuple(din.shape).items)
           \/ ~dout.ok /\ dout.err = "ShapeError"


\* What the generator returns for the size of the call.
Generated == rv_op(ConstEs(din.P), din.supp, ToTuple(din.size))

\* C12: a dist call with size given (alone, accepted by the resolver and by
\* the generator) succeeds and returns the generator's result unchanged; it
\* emits a ShapeWarning exactly when the result's dimensionality differs from
\* len(size) + ndim_supp.
C12_SizeMismatchWarns ==
    (SizeGiven /\ Generated.ok) =>
        /\ dout.ok
        /\ dout.rv = Generated.rv
        /\ dout.warn <=>
            (rv_ndim(dout.rv) # Len(ToTuple(din.size).items) + Len(din.supp))

\* MvNormal.dist(mu of shape (2, 3), cov, size=(2,)) has returned a
\* 3-dimensional variable with a ShapeWarning, and not failed.
C12_Witness ==
    /\ SizeGiven
    /\ din.P = <<2>>
    /\ din.supp = <<3>>
    /\ din.size = Tup(<<IntE(2)>>)
    /\ dout.ok
    /\ dout.warn
    /\ rv_ndim(dout.rv) = 3

\* C13: for shape = (s1, ..., sk, Ellipsis) and parameters implying m
\* dimensions, dist returns a variable of k + m dimensions whose leading k
\* lengths are s1, ..., sk, followed by the implied ones.
C13_EllipsisAppends ==
    (/\ ShapeGiven
     /\ din.shape.kind = "tuple"
     /\ din.shape.items # <<>>
     /\ Last(din.shape.items) = Ell) =>
        /\ dout.ok
        /\ rv_ndim(dout.rv) = Len(din.shape.items) - 1 + Len(din.P) + Len(din.supp)
        /\ rv_shape(dout.rv) =
                ConstEs(Ints(Front(din.shape.items))) \o ConstEs(din.P)
                    \o ConstEs(din.supp)


(***************************************************************************)
(* model.py: Model.set_data, and the shared data variables it replaces     *)
(***************************************************************************)
\* pymc3.data.Data(name, value, dims=dims) in the context of model mi: a
\* shared variable of the value's shape; every dimension name the model does
\* not know yet gets the variable's axis as its length, without values.
data_new(R, mi, name, shape, dims) ==
    IF Len(ToTuple(dims).items) # Len(shape) THEN Out(R, FALSE, "ShapeError", 0)
    ELSE LET var == Len(R.vinfo) + 1
             x == [NewVar("shared", ConstEs(shape), <<>>, <<>>)
                        EXCEPT !.name = name_for(mi, name)]
             o == register_implied_dims([R EXCEPT !.vinfo = Append(R.vinfo, x)], mi, var,
                                        ToTuple(dims).items, 0, 0)
         IN  IF ~o.ok THEN o ELSE add_random_variable(o.R, mi, var, ToTuple(dims))

DataOut(R, ok, err, var, dim, msg) ==
    [R |-> R, ok |-> ok, err |-> err, var |-> var, dim |-> dim, msg |-> msg]

RECURSIVE set_data_dims(_, _, _, _, _, _, _)
RECURSIVE set_data_dim(_, _, _, _, _, _, _, _, _, _, _)

\* set_data, lines 1055-1083: one round of the loop, for dimension dname of
\* length object length_tensor, evaluating to old_length.
set_data_dim(R, mi, x, dims, values, cds, d, dname, length_tensor, old_length, new_length) ==
    IF length_tensor.k # "axis"
    THEN DataOut(R, FALSE, "AttributeError", x, dname, "owner")
    ELSE IF R.vinfo[length_tensor.rv].kind # "shared" /\ new_length # old_length
    THEN DataOut(R, FALSE, "ShapeError", x, dname, "resize")
    ELSE IF /\ R.coords[mi][dname].k # "none"
            /\ new_length # old_length
            /\ dname \notin DOMAIN cds
    THEN DataOut(R, FALSE, "ValueError", x, dname, "required")
    ELSE IF dname \in DOMAIN cds /\ Len(cds[dname]) # new_length
    THEN DataOut(R, FALSE, "ShapeError", x, dname, "coords")
    ELSE set_data_dims(
            [R EXCEPT
                !.coords[mi] = IF dname \in DOMAIN cds
                               THEN (dname :> ListValues(cds[dname])) @@ R.coords[mi]
                               ELSE R.coords[mi],
                !.dim_lengths[mi] = IF length_tensor.k = "shared"
                                       /\ new_length # old_length
                                    THEN (dname :> Shared(new_length)) @@ R.dim_lengths[mi]
                                    ELSE R.dim_lengths[mi]],
            mi, x, dims, values, cds, d + 1)

\* set_data without shared_object.set_value(values).
set_data_dims_unset(R, mi, x, dims, values, cds, d) ==
    IF d >= Len(dims)
    THEN DataOut(R, TRUE, "", x, NoneE, "")
    ELSE IF dims[d + 1] \notin DOMAIN R.dim_lengths[mi]
    THEN DataOut(R, FALSE, "KeyError", x, dims[d + 1], "")
    ELSE set_data_dim(R, mi, x, dims, values, cds, d, dims[d + 1],
                      R.dim_lengths[mi][dims[d + 1]],
                      eval_entry(R, LenE(mi, dims[d + 1])), values[d + 1])

\* set_data, lines 1043-1085: the loop over the variable's dims from index d
\* (0-based), then shared_object.set_value(values).
set_data_dims(R, mi, x, dims, values, cds, d) ==
    IF d >= Len(dims)
    THEN DataOut([R EXCEPT !.vinfo[x].P = ConstEs(values)], TRUE, "", x, NoneE, "")
    ELSE IF dims[d + 1] \notin DOMAIN R.dim_lengths[mi]
    THEN DataOut(R, FALSE, "KeyError", x, dims[d + 1], "")
    ELSE set_data_dim(R, mi, x, dims, values, cds, d, dims[d + 1],
                      R.dim_lengths[mi][dims[d + 1]],
                      eval_entry(R, LenE(mi, dims[d + 1])), values[d + 1])

\* set_data, lines 1025-1041: found is what self[name] gave.
set_data_found(R, mi, name, values, cds, found) ==
    IF ~found.found THEN DataOut(R, FALSE, "KeyError", 0, NoneE, "")
    ELSE IF R.vinfo[found.var].kind # "shared"
    THEN DataOut(R, FALSE, "TypeError", found.var, NoneE, "")
    ELSE IF Len(values) # rv_ndim(R.vinfo[found.var])
    THEN DataOut(R, FALSE, "ValueError", found.var, NoneE, "ndim")
    ELSE set_data_dims(R, mi, found.var,
                       IF name \in DOMAIN R.RV_dims[mi] THEN R.RV_dims[mi][name] ELSE <<>>,
                       values, cds, 0)

\* self[name] on the registry R.
getitem_in(R, mi, key) ==
    IF key \in DOMAIN R.named_vars[mi]
    THEN [found |-> TRUE, var |-> R.named_vars[mi][key]]
    ELSE IF name_for(mi, key) \in DOMAIN R.named_vars[mi]
         THEN [found |-> TRUE, var |-> R.named_vars[mi][name_for(mi, key)]]
         ELSE [found |-> FALSE, var |-> 0]

\* Model.set_data(name, values, coords): values is given by its shape, coords
\* maps dimension names to their new labels.
set_data(R, mi, name, values, cds) ==
    set_data_found(R, mi, name, values, cds, getitem_in(R, mi, name))


(***************************************************************************)
(* SpecData: a model with a shared data variable, random variables sized   *)
(* through its dimensions, and set_data replacing the data                 *)
(***************************************************************************)
MaxOps == 4          \* operations on the model in one run

Y == <<"y">>
Z == <<"z">>
DimB == StrE("b")
DimF == StrE("f")
DimS == StrE("s")
DimDraw == StrE("draw")

\* Model(coords=c): nothing, or b with two labels.
DataModelCoords == {<<>>, (DimB :> ListValues(Labels2))}

InitData ==
    /\ CtxInit
    /\ ShapeIdle
    /\ models = <<[name |-> <<>>, parent |-> 0]>>
    /\ named_vars = << <<>> >>
    /\ free_RVs = << <<>> >>
    /\ observed_RVs = << <<>> >>
    /\ deterministics = << <<>> >>
    /\ auto_deterministics = << <<>> >>
    /\ potentials = << <<>> >>
    /\ rvs_to_values = << <<>> >>
    /\ values_to_rvs = << <<>> >>
    /\ \E c \in DataModelCoords :
        /\ coords = <<c>>
        /\ dim_lengths = <<[d \in DOMAIN c |-> Shared(Len(c[d].v))]>>
    /\ RV_dims = << <<>> >>
    /\ vinfo = <<>>
    /\ warned = <<>>
    /\ last = NoLast
    /\ nops = 0

\* (shape of the value, dims) of a pm.Data call
DataCalls ==
    {<<(<<2, 3>>), Tup(<<DimF, DimS>>)>>,
     <<(<<2>>), Tup(<<DimF>>)>>,
     <<(<<2>>), Tup(<<DimB>>)>>,
     <<(<<2>>), Tup(<<DimDraw>>)>>}

\* pm.Data(name, value, dims=dims) inside `with model:` for model mi.
DataNew(mi, name, shape, dims) ==
    /\ nops < MaxOps
    /\ nops' = nops + 1
    /\ name \notin DOMAIN named_vars[mi]
    /\ Finish(data_new(Reg, mi, name, shape, dims),
              [NoLast EXCEPT !.op = "Data", !.model = mi, !.given = name,
                             !.name = name_for(mi, name), !.P = shape, !.dims = dims])

\* The shape of a parameter that is the variable mu.
ShapeOf(mu) == [i \in 1..rv_ndim(vinfo[mu]) |-> AxisE(mu, i)]

\* Normal(name, P-shaped constant, dims=dims) inside `with model:`.
NormalNew(mi, name, P, dims) ==
    /\ nops < MaxOps
    /\ nops' = nops + 1
    /\ name \notin DOMAIN named_vars[mi]
    /\ Finish(distribution_new(Reg, mi, name, ConstEs(P), <<>>, None, dims, None, NoData,
                               <<>>),
              [NoLast EXCEPT !.op = "Distribution", !.model = mi, !.given = name,
                             !.name = name_for(mi, name), !.P = P, !.dims = dims])

\* Normal(name, mu=model[parent], observed=data) inside `with model:`.
NormalObserved(mi, name, parent, data) ==
    /\ nops < MaxOps
    /\ nops' = nops + 1
    /\ name \notin DOMAIN named_vars[mi]
    /\ parent \in DOMAIN named_vars[mi]
    /\ Finish(distribution_new(Reg, mi, name, ShapeOf(named_vars[mi][parent]), <<>>, None,
                               None, None, data, <<>>),
              [NoLast EXCEPT !.op = "Observed", !.model = mi, !.given = name,
                             !.name = name_for(mi, name), !.data = data])

\* model.set_data(name, values, coords=cds)
SetData(mi, name, values, cds) ==
    /\ nops < MaxOps
    /\ nops' = nops + 1
    /\ LET o == set_data(Reg, mi, name, values, cds)
       IN  /\ SetReg(o.R)
           /\ last' = [NoLast EXCEPT !.op = "set_data", !.model = mi, !.given = name,
                                     !.vals = values, !.cds = cds, !.var = o.var,
                                     !.ok = o.ok, !.err = o.err, !.dim = o.dim,
                                     !.msg = o.msg]
    /\ UNCHANGED models
    /\ UNCHANGED <<ctxvars, shapevars>>

\* (name, values, length) of an add_coord call
CoordCalls ==
    {<<DimDraw, ListValues(Labels2), NoLength>>,
     <<DimF, ListValues(Labels2), NoLength>>}

RVCalls ==
    {<<(<<>>), Tup(<<DimF, DimS>>)>>,
     <<(<<>>), Tup(<<DimF>>)>>,
     <<(<<3>>), Tup(<<DimF>>)>>,
     <<(<<3>>), Tup(<<DimDraw>>)>>,
     <<(<<>>), Tup(<<DimDraw>>)>>,
     <<(<<3>>), Tup(<<NoneE>>)>>,
     <<(<<3>>), Tup(<<DimF, Ell>>)>>}

NewValues == {<<2>>, <<3>>, <<2, 3>>, <<3, 2>>}
NewCoords ==
    {<<>>, (DimF :> Labels3), (DimF :> Labels2), (DimB :> Labels3),
     (DimF :> Labels3) @@ (DimS :> Labels3)}

NextData ==
    \/ \E c \in DataCalls : DataNew(1, X, c[1], c[2])
    \/ \E c \in RVCalls : NormalNew(1, Y, c[1], c[2])
    \/ \E data \in {Dense(<<2, 3>>), Dense(<<2>>)} : NormalObserved(1, Z, Y, data)
    \/ \E c \in CoordCalls : nops < MaxOps /\ AddCoord(1, c[1], c[2], c[3])
    \/ \E values \in NewValues, cds \in NewCoords : SetData(1, X, values, cds)

SpecData == InitData /\ [][NextData]_vars


(***************************************************************************)
(* Data and coordinates: claims                                            *)
(***************************************************************************)
NoReserved ==
    \A mi \in DOMAIN models :
        /\ DOMAIN coords[mi] \cap ReservedDims = {}
        /\ DOMAIN dim_lengths[mi] \cap ReservedDims = {}

\* C14: whatever add_coord, pm.Data, set_data and random variables with dims
\* have done, no reserved name is a key of coords or of dim_lengths; and an
\* add_coord with a reserved name fails with ValueError, leaving coords and
\* dim_lengths as they were.
C14_ReservedNames ==
    /\ NoReserved
    /\ [][/\ NoReserved'
          /\ (last'.op = "add_coord" /\ last'.dim \in ReservedDims) =>
                /\ ~last'.ok
                /\ last'.err = "ValueError"
                /\ coords' = coords
                /\ dim_lengths' = dim_lengths]_vars

\* After a random variable has registered the dimension f, add_coord("draw")
\* has failed.
C14_Witness ==
    /\ last.op = "add_coord"
    /\ last.dim = DimDraw
    /\ ~last.ok
    /\ DimF \in DOMAIN dim_lengths[1]
    /\ Y \in DOMAIN named_vars[1]


\* The same coordinate values: both absent, or the same labels.
SameValues(a, b) == (a.k = "none") = (b.k = "none") /\ a.v = b.v

\* add_coord was called with arguments it accepts for a new name.
AcceptableCoord(name, values, length) ==
    /\ name \notin ReservedDims
    /\ ~(values.k = "none" /\ length.k = "none")
    /\ length.k # "int"

\* C15: add_coord for a name that is already registered leaves coords and
\* dim_lengths unchanged; it succeeds when the values equal the registered
\* ones and fails with ValueError when they differ, for every kind of values
\* add_coord accepts (a pandas Index, a list, None with a length).
C15_ReAdd ==
    [][(/\ last'.op = "add_coord"
        /\ last'.dim \in DOMAIN coords[last'.model]
        /\ AcceptableCoord(last'.dim, last'.values, last'.length)) =>
            /\ coords' = coords
            /\ dim_lengths' = dim_lengths
            /\ SameValues(last'.values, coords[last'.model][last'.dim]) => last'.ok
            /\ ~SameValues(last'.values, coords[last'.model][last'.dim])
                    => (~last'.ok /\ last'.err = "ValueError")]_vars


\* C16: shape_from_dims of a tuple of distinct registered names returns one
\* entry per name, in order, each the number of that name's coordinate
\* values; with an unregistered name or a name occurring twice it fails with
\* ValueError.
C16_ShapeFromDims ==
    last.op = "shape_from_dims" =>
        LET dims == last.dims.items
            known == \A i \in 1..Len(dims) : dims[i] \in DOMAIN coords[last.model]
            distinct == \A i, j \in 1..Len(dims) : dims[i] = dims[j] => i = j
        IN  /\ (known /\ distinct) =>
                /\ last.ok
                /\ Len(last.out) = Len(dims)
                /\ \A i \in 1..Len(dims) :
                        last.out[i] = Len(coords[last.model][dims[i]].v)
            /\ ~(known /\ distinct) => (~last.ok /\ last.err = "ValueError")


\* A set_data call is being made: its arguments are in last', the registry it
\* acts on is the unprimed one.
SetDataCall == last'.op = "set_data" /\ nops' # nops

\* The variable the call names, and the dims recorded for that name.
Target == getitem(last'.model, last'.given)
TargetDims ==
    IF last'.given \in DOMAIN RV_dims[last'.model]
    THEN RV_dims[last'.model][last'.given] ELSE <<>>

\* The call gets as far as the loop over the dims: the variable exists, is a
\* shared variable, and the new values have as many dimensions as it has.
ReachesDims ==
    /\ Target.found
    /\ vinfo[Target.var].kind = "shared"
    /\ Len(last'.vals) = rv_ndim(vinfo[Target.var])
    /\ Len(TargetDims) = Len(last'.vals)
    /\ \A i \in 1..Len(TargetDims) : TargetDims[i] \in DOMAIN dim_lengths[last'.model]

\* Axis i changes its length.
Changed(i) == last'.vals[i] # eval_entry(Reg, LenE(last'.model, TargetDims[i]))

\* The length of the dimension of axis i is an axis of a variable that is not
\* a shared variable.
FixedSource(i) ==
    /\ dim_lengths[last'.model][TargetDims[i]].k = "axis"
    /\ vinfo[dim_lengths[last'.model][TargetDims[i]].rv].kind # "shared"

\* New coordinate values are required for axis i and not given.
CoordsMissing(i) ==
    /\ Changed(i)
    /\ coords[last'.model][TargetDims[i]].k # "none"
    /\ TargetDims[i] \notin DOMAIN last'.cds

\* New coordinate values are given for axis i, in the wrong number.
CoordsMiscounted(i) ==
    /\ TargetDims[i] \in DOMAIN last'.cds
    /\ Len(last'.cds[TargetDims[i]]) # last'.vals[i]

Axes == 1..Len(TargetDims)

\* C17: a set_data call that reaches the dims of its variable, with the
\* coordinate values it needs, has one of two outcomes: if it changes the
\* length of a dimension whose length is an axis of a non-shared variable, a
\* ShapeError naming such a dimension; otherwise success, with every dimension
\* of the variable evaluating to the new length of its axis.
C17_ResizeOutcome ==
    [][(/\ SetDataCall
        /\ ReachesDims
        /\ \A i \in Axes : ~CoordsMissing(i) /\ ~CoordsMiscounted(i)) =>
            IF \E i \in Axes : Changed(i) /\ FixedSource(i)
            THEN /\ ~last'.ok
                 /\ last'.err = "ShapeError"
                 /\ \E i \in Axes :
                        Changed(i) /\ FixedSource(i) /\ last'.dim = TargetDims[i]
            ELSE /\ last'.ok
                 /\ \A i \in Axes :
                        eval_entry(Reg', LenE(last'.model, TargetDims[i])) = last'.vals[i]
      ]_vars

RECURSIVE DependsOn(_, _, _)
\* The shape entry e is, through dimension lengths and parameter shapes, axis
\* a of variable x.
DependsOn(e, x, a) ==
    IF e.k = "const" THEN FALSE
    ELSE IF e.k = "axis"
    THEN (e.rv = x /\ e.ax = a) \/ DependsOn(rv_shape(vinfo[e.rv])[e.ax], x, a)
    ELSE LET l == dim_lengths[e.m][e.d]
         IN  /\ l.k = "axis"
             /\ (l.rv = x /\ l.ax = a) \/ DependsOn(rv_shape(vinfo[l.rv])[l.ax], x, a)

\* C18: after a successful set_data on shared variable x, every dimension
\* whose length is axis a of x evaluates to the length of axis a of the new
\* values, and so does every axis of every variable that is sized through
\* such a dimension or through a parameter that is.
C18_ResizePropagates ==
    (last.op = "set_data" /\ last.ok) =>
        /\ eval_shape(Reg, vinfo[last.var]) = last.vals
        /\ \A d \in DOMAIN dim_lengths[last.model] :
                LET l == dim_lengths[last.model][d]
                IN  (l.k = "axis" /\ l.rv = last.var) =>
                        eval_entry(Reg, LenE(last.model, d)) = last.vals[l.ax]
        /\ \A v \in DOMAIN vinfo : \A i \in 1..rv_ndim(vinfo[v]) :
                \A a \in 1..Len(last.vals) :
                    DependsOn(rv_shape(vinfo[v])[i], last.var, a) =>
                        /\ eval_ok(Reg, vinfo[v])
                        /\ eval_shape(Reg, vinfo[v])[i] = last.vals[a]

\* x of shape (2, 3) defines f and s, y has dims (f, s), z is observed with
\* mu = y; x has been replaced by values of shape (3, 2), and x, y and z
\* evaluate to shape (3, 2).
C18_Witness ==
    /\ last.op = "set_data"
    /\ last.ok
    /\ last.vals = <<3, 2>>
    /\ Y \in DOMAIN named_vars[1]
    /\ Z \in DOMAIN named_vars[1]
    /\ RV_dims[1][Y] = <<DimF, DimS>>
    /\ eval_shape(Reg, vinfo[named_vars[1][X]]) = <<3, 2>>
    /\ eval_shape(Reg, vinfo[named_vars[1][Y]]) = <<3, 2>>
    /\ eval_shape(Reg, vinfo[named_vars[1][Z]]) = <<3, 2>>

\* C19: in a set_data call that reaches the dims of its variable: if new
\* coordinate values are required for a dimension and not given, the call
\* fails (with ValueError when nothing else is wrong); if coordinate values
\* are given in the wrong number, the call fails (with ShapeError when
\* nothing else is wrong); and when the call succeeds, the stored values of
\* every dimension for which values were given are the new ones.
C19_CoordsOnResize ==
    [][(SetDataCall /\ ReachesDims) =>
            /\ (\E i \in Axes : CoordsMissing(i) \/ CoordsMiscounted(i)) => ~last'.ok
            /\ (/\ \E i \in Axes : CoordsMissing(i)
                /\ \A i \in Axes : ~CoordsMiscounted(i)
                /\ \A i \in Axes : ~(Changed(i) /\ FixedSource(i)))
                    => last'.err = "ValueError"
            /\ (/\ \E i \in Axes : CoordsMiscounted(i)
                /\ \A i \in Axes : ~CoordsMissing(i)
                /\ \A i \in Axes : ~(Changed(i) /\ FixedSource(i)))
                    => last'.err = "ShapeError"
            /\ last'.ok =>
                \A i \in Axes :
                    TargetDims[i] \in DOMAIN last'.cds =>
                        coords'[last'.model][TargetDims[i]].v = last'.cds[TargetDims[i]]
      ]_vars


(***************************************************************************)
(* Registrations: the unobserved path of register_rv                       *)
(***************************************************************************)
\* A register_rv call without data, on a variable not registered before, is
\* being made and succeeds.
UnobservedRegistered ==
    /\ last'.op = "register_rv"
    /\ nops' # nops
    /\ last'.ok
    /\ last'.data.k = "none"

\* The given name qualified with the prefix of the model: p_n, or n itself if
\* it starts with p_ already.
Qualified(mi, given, name) ==
    /\ StartsWith(name, prefix(mi))
    /\ \/ name = prefix(mi) \o given
       \/ name = given /\ StartsWith(given, prefix(mi))

\* C20: after a successful register_rv without data on a model with prefix p,
\* for a variable not registered before: the variable's name is the given
\* name qualified with p; free_RVs of the model is what it was with the
\* variable appended, and holds it once; observed_RVs does not hold it;
\* rvs_to_values maps it to a value variable; named_vars maps the qualified
\* name to it; and dims, if given, are recorded in RV_dims under that name.
C20_UnobservedPath ==
    [][UnobservedRegistered =>
        LET mi == last'.model
            rv == last'.var
            name == vinfo'[rv].name
        IN  /\ Qualified(mi, last'.given, name)
            /\ vinfo'[rv].kind = "rv"
            /\ free_RVs'[mi] = Append(free_RVs[mi], rv)
            /\ Cardinality({i \in 1..Len(free_RVs'[mi]) : free_RVs'[mi][i] = rv}) = 1
            /\ \A i \in 1..Len(observed_RVs'[mi]) : observed_RVs'[mi][i] # rv
            /\ rv \in DOMAIN rvs_to_values'[mi]
            /\ vinfo'[rvs_to_values'[mi][rv]].kind = "value"
            /\ name \in DOMAIN named_vars'[mi]
            /\ named_vars'[mi][name] = rv
            /\ last'.dims.kind # "none" =>
                    /\ name \in DOMAIN RV_dims'[mi]
                    /\ RV_dims'[mi][name] = last'.dims.items
      ]_vars

\* A second free variable has been registered, with dims, in the child a of
\* the unnamed root: it is stored as a_x, behind the first one.
C20_Witness ==
    /\ last.op = "register_rv"
    /\ last.ok
    /\ last.data.k = "none"
    /\ last.dims = Tup(<<NoneE>>)
    /\ last.model # 1
    /\ models[last.model].name # <<>>
    /\ last.given = X
    /\ last.name = AX
    /\ Len(free_RVs[last.model]) = 2
    /\ free_RVs[last.model][2] = last.var
    /\ AX \in DOMAIN RV_dims[last.model]


(***************************************************************************)
(* The joint log-probability, as the list of its terms                     *)
(***************************************************************************)
\* One factor of logpt: the variable and what its density is taken against
\* (a value variable's id, observations, or nothing for a potential).
Factor(kind, var, value, obs) == [kind |-> kind, var |-> var, value |-> value, obs |-> obs]

\* logpt with a term for every automatic deterministic as well.
logpt_with_auto(R, mi) ==
    [i \in 1..Len(R.free_RVs[mi]) |->
        LET var == R.free_RVs[mi][i]
        IN  Factor("free", var,
                   IF var \in DOMAIN R.rvs_to_values[mi] THEN R.rvs_to_values[mi][var] ELSE 0,
                   NoObs)]
    \o [i \in 1..Len(R.observed_RVs[mi]) |->
            Factor("observed", R.observed_RVs[mi][i], 0,
                   R.vinfo[R.observed_RVs[mi][i]].obs)]
    \o [i \in 1..Len(R.potentials[mi]) |-> Factor("potential", R.potentials[mi][i], 0, NoObs)]
    \o [i \in 1..Len(R.auto_deterministics[mi]) |->
            Factor("potential", R.auto_deterministics[mi][i], 0, NoObs)]

\* Model.logpt, lines 722-731
logpt(R, mi) ==
    [i \in 1..Len(R.free_RVs[mi]) |->
        LET var == R.free_RVs[mi][i]
        IN  Factor("free", var,
                   IF var \in DOMAIN R.rvs_to_values[mi] THEN R.rvs_to_values[mi][var] ELSE 0,
                   NoObs)]
    \o [i \in 1..Len(R.observed_RVs[mi]) |->
            Factor("observed", R.observed_RVs[mi][i], 0,
                   R.vinfo[R.observed_RVs[mi][i]].obs)]
    \o [i \in 1..Len(R.potentials[mi]) |-> Factor("potential", R.potentials[mi][i], 0, NoObs)]

(***************************************************************************)
(* SpecObs: variables registered with observed data of every kind,         *)
(* potentials and deterministics, in a parent model and a child            *)
(***************************************************************************)
XMissing == X \o Missing

Mask1 == <<FALSE, TRUE, FALSE>>
Mask2 == <<TRUE, TRUE, FALSE>>
MaskAll == <<TRUE, TRUE>>

\* (name, shape of the variable, observed data, transform) of a register_rv
\* call
ObsCalls ==
    {<<X, (<<>>), data, (<<>>)>> :
        data \in {NoData, Dense(<<>>), GraphData, Placeholder(<<>>), Independent(<<>>),
                  Masked(Mask1)}}
        \cup {<<X, (<<2, 2>>), Sparse(<<2, 2>>), (<<>>)>>,
              <<X, (<<3>>), Masked(Mask1), (<<>>)>>,
              <<X, (<<3>>), Masked(Mask2), (<<>>)>>,
              <<X, (<<2>>), Masked(MaskAll), (<<>>)>>,
              <<X, (<<3>>), Masked(Mask1), LogName>>,
              <<XMissing, (<<>>), NoData, (<<>>)>>}

\* model.register_rv(rv, name, data, transform=tr) on a fresh variable of
\* shape P.
RegisterObserved(mi, name, P, data, tr) ==
    /\ nops < MaxRegs
    /\ nops' = nops + 1
    /\ LET rv == Len(vinfo) + 1
           R0 == [Reg EXCEPT !.vinfo = Append(vinfo, NewVar("rv", ConstEs(P), <<>>, <<>>))]
       IN  Finish(register_rv(R0, mi, rv, name, data, None, tr),
                  [NoLast EXCEPT !.op = "register_rv", !.model = mi, !.given = name,
                                 !.name = name_for(mi, name), !.tr = tr, !.data = data,
                                 !.P = P])

\* model.logpt
Logpt(mi) ==
    /\ last' = [NoLast EXCEPT !.op = "logpt", !.model = mi, !.ok = TRUE,
                              !.out = logpt(Reg, mi)]
    /\ UNCHANGED <<models, named_vars, free_RVs, observed_RVs, deterministics,
                   auto_deterministics, potentials, rvs_to_values, values_to_rvs, coords,
                   dim_lengths, RV_dims, vinfo, warned, nops>>
    /\ UNCHANGED <<ctxvars, shapevars>>

NextObs ==
    \/ \E parent \in 1..MaxModels : NewModel(A, parent)
    \/ \E mi \in DOMAIN models, c \in ObsCalls : RegisterObserved(mi, c[1], c[2], c[3], c[4])
    \/ \E mi \in DOMAIN models : Deterministic(mi, X, FALSE)
    \/ \E mi \in DOMAIN models : Potential(mi, X)
    \/ \E mi \in DOMAIN models : Logpt(mi)

SpecObs == Init /\ [][NextObs]_vars


(***************************************************************************)
(* Observed data: claims                                                   *)
(***************************************************************************)
\* A register_rv call is being made: its arguments are in last'.
RegisterCall == last'.op = "register_rv" /\ nops' # nops

\* C21: register_rv with observed data that is a variable depending on other
\* nodes, not a generator or minibatch placeholder, fails with TypeError and
\* adds nothing to free_RVs, observed_RVs or named_vars; data without owner
\* and placeholders do not fail that way, and are registered as observed
\* when the name is free and the data has the variable's dimensions.
C21_GraphDataRejected ==
    [][RegisterCall =>
        /\ last'.data.k = "graph" =>
                /\ ~last'.ok
                /\ last'.err = "TypeError"
                /\ free_RVs' = free_RVs
                /\ observed_RVs' = observed_RVs
                /\ named_vars' = named_vars
        /\ last'.data.k \in {"independent", "placeholder"} =>
                /\ last'.err # "TypeError"
                /\ (/\ ~tree_contains(named_vars, last'.model, last'.name)
                    /\ Len(last'.data.shape) = Len(last'.P))
                        => /\ last'.ok
                           /\ observed_RVs'[last'.model] =
                                    Append(observed_RVs[last'.model], last'.var)
      ]_vars

\* A model that holds a variable already has refused data that depends on
\* other nodes.
C21_Witness ==
    /\ last.op = "register_rv"
    /\ last.data = GraphData
    /\ last.err = "TypeError"
    /\ named_vars[last.model] # <<>>
    /\ nops = 2


\* The data of the call is a masked array with as many dimensions as the
\* variable.
MaskedCall == RegisterCall /\ last'.data.k = "masked" /\ Len(last'.P) = 1

\* Number of missing entries of the data of the call.
NMissing == Len(Where(last'.data.mask, TRUE))

\* C22: when every entry of the observed masked array is masked, the call
\* returns the variable it was given, unchanged but for its name: no other
\* variable is created, observed_RVs and auto_deterministics are as before,
\* and no ImputationWarning is emitted.
C22_FullyMasked ==
    [][(MaskedCall /\ NMissing = Len(last'.data.mask)) =>
        /\ last'.ok
        /\ last'.var = Len(vinfo) + 1
        /\ Len(vinfo') = Len(vinfo) + 1
        /\ vinfo'[last'.var] =
                [NewVar("rv", ConstEs(last'.P), <<>>, <<>>) EXCEPT !.name = last'.name]
        /\ observed_RVs' = observed_RVs
        /\ auto_deterministics' = auto_deterministics
        /\ warned' = warned
      ]_vars

\* A fully masked array has been observed in a child model.
C22_Witness ==
    /\ last.op = "register_rv"
    /\ last.data = Masked(MaskAll)
    /\ last.ok
    /\ last.model # 1
    /\ models[last.model].name # <<>>


\* The masked and the unmasked indices of the data of the call.
MaskedIdx == {i \in 1..Len(last'.data.mask) : last'.data.mask[i]}
UnmaskedIdx == {i \in 1..Len(last'.data.mask) : ~last'.data.mask[i]}

\* s lists the elements of the set S in increasing order.
Lists(s, S) ==
    /\ Len(s) = Cardinality(S)
    /\ {s[k] : k \in 1..Len(s)} = S
    /\ \A k \in 1..Len(s) - 1 : s[k] < s[k + 1]

\* C23: a register_rv call that succeeds for a variable named N (qualified)
\* with a masked array of n entries, m of them masked, 0 < m < n, creates and
\* registers exactly: a free variable N_missing of length m; an observed
\* variable N_observed of length n - m whose observations are the unmasked
\* entries of the data, in order; and an automatic deterministic N of length
\* n, which the call returns, holding at the k-th masked index the k-th entry
\* of N_missing and at the k-th unmasked index the k-th entry of N_observed.
\* One ImputationWarning is emitted.
C23_MissingDataSplit ==
    [][(MaskedCall /\ 0 < NMissing /\ NMissing < Len(last'.data.mask) /\ last'.ok) =>
        LET mi == last'.model
            N == last'.name
            n == Len(last'.data.mask)
            nv == named_vars'[mi]
        IN  /\ {N, N \o Missing, N \o Observed} \subseteq DOMAIN nv
            /\ LET mv == nv[N \o Missing]
                   ov == nv[N \o Observed]
                   dv == nv[N]
               IN  /\ Cardinality({mv, ov, dv}) = 3
                   /\ {mv, ov, dv} \cap DOMAIN vinfo = {}
                   /\ Len(vinfo') = Len(vinfo) + 6
                   /\ vinfo'[mv].kind = "rv" /\ vinfo'[mv].name = N \o Missing
                   /\ rv_shape(vinfo'[mv]) = <<ConstE(NMissing)>>
                   /\ free_RVs'[mi] = Append(free_RVs[mi], mv)
                   /\ mv \in DOMAIN rvs_to_values'[mi]
                   /\ vinfo'[ov].kind = "rv" /\ vinfo'[ov].name = N \o Observed
                   /\ rv_shape(vinfo'[ov]) = <<ConstE(n - NMissing)>>
                   /\ observed_RVs'[mi] = Append(observed_RVs[mi], ov)
                   /\ vinfo'[ov].obs.data = last'.data
                   /\ ~vinfo'[ov].obs.whole
                   /\ Lists(vinfo'[ov].obs.idx, UnmaskedIdx)
                   /\ vinfo'[dv].kind = "det" /\ vinfo'[dv].name = N
                   /\ rv_shape(vinfo'[dv]) = <<ConstE(n)>>
                   /\ auto_deterministics'[mi] = Append(auto_deterministics[mi], dv)
                   /\ deterministics' = deterministics
                   /\ potentials' = potentials
                   /\ last'.var = dv
                   /\ Len(vinfo'[dv].parts) = n
                   /\ \A i \in 1..n :
                        vinfo'[dv].parts[i] =
                            IF i \in MaskedIdx
                            THEN [rv |-> mv, at |-> Cardinality({j \in MaskedIdx : j <= i})]
                            ELSE [rv |-> ov, at |-> Cardinality({j \in UnmaskedIdx : j <= i})]
                   /\ warned' = Append(warned, N)
      ]_vars

\* A vector of three entries with the middle one missing has been observed
\* in a child model with a prefix.
C23_Witness ==
    /\ last.op = "register_rv"
    /\ last.data = Masked(Mask1)
    /\ last.P = <<3>>
    /\ last.ok
    /\ last.model # 1
    /\ last.name = AX
    /\ Len(free_RVs[1]) = 1
    /\ Len(observed_RVs[1]) = 1
    /\ Len(auto_deterministics[1]) = 1


(***************************************************************************)
(* Dims of created variables: claims                                       *)
(***************************************************************************)
\* The dimension names given in the dims of the last call (dims without its
\* trailing Ellipsis).
GivenDims ==
    IF HasEllipsis(last.dims.items) THEN Front(last.dims.items) ELSE last.dims.items

\* C24: for a variable created with dims, the tuple recorded in RV_dims has
\* one entry per axis of the variable: first the given names, then, when
\* dims ends in an Ellipsis, one None for every dimension implied by the
\* parameters.
C24_DimsPerAxis ==
    (last.op = "Distribution" /\ last.ok /\ last.dims.kind # "none") =>
        /\ last.name \in DOMAIN RV_dims[last.model]
        /\ LET rd == RV_dims[last.model][last.name]
           IN  /\ Len(rd) = rv_ndim(vinfo[last.var])
               /\ SliceTo(rd, Len(GivenDims)) = GivenDims
               /\ HasEllipsis(last.dims.items) =>
                    /\ Len(rd) = Len(GivenDims) + Len(last.P) + Len(last.supp)
                    /\ \A i \in Len(GivenDims) + 1..Len(rd) : rd[i] = NoneE


\* The terms of the last logpt that are about variable v.
TermsOf(v) == {i \in 1..Len(last.out) : last.out[i].var = v}

\* The elements of a list.
Range(s) == {s[i] : i \in 1..Len(s)}

\* C25: the terms of logpt of a model are: for every free RV one term,
\* against its value variable; for every observed RV one term, against its
\* observations; for every potential one term; and no other term, none for
\* a deterministic or an automatic deterministic in particular.
C25_LogpTerms ==
    last.op = "logpt" =>
        LET mi == last.model
        IN  /\ Len(last.out) =
                    Len(free_RVs[mi]) + Len(observed_RVs[mi]) + Len(potentials[mi])
            /\ \A v \in Range(free_RVs[mi]) :
                    /\ Cardinality(TermsOf(v)) = 1
                    /\ \A i \in TermsOf(v) :
                            /\ last.out[i].kind = "free"
                            /\ last.out[i].value \in DOMAIN vinfo
                            /\ vinfo[last.out[i].value].kind = "value"
                            /\ values_to_rvs[mi][last.out[i].value] = v
            /\ \A v \in Range(observed_RVs[mi]) :
                    /\ Cardinality(TermsOf(v)) = 1
                    /\ \A i \in TermsOf(v) :
                            /\ last.out[i].kind = "observed"
                            /\ last.out[i].obs = vinfo[v].obs
                            /\ last.out[i].obs # NoObs
            /\ \A v \in Range(potentials[mi]) :
                    /\ Cardinality(TermsOf(v)) = 1
                    /\ \A i \in TermsOf(v) : last.out[i].kind = "potential"
            /\ \A v \in Range(deterministics[mi]) \cup Range(auto_deterministics[mi]) :
                    TermsOf(v) = {}

\* logpt of the parent of a model in which partly missing data was observed
\* and a potential was added: three terms, for x_missing, x_observed and the
\* potential.
C25_Witness ==
    /\ last.op = "logpt"
    /\ last.model = 1
    /\ Len(models) = 2
    /\ Len(auto_deterministics[1]) = 1
    /\ Len(potentials[1]) = 1
    /\ Len(last.out) = 3
    /\ last.out[1].kind = "free"
    /\ last.out[2].kind = "observed"
    /\ last.out[2].obs.idx = <<1, 3>>


(***************************************************************************)
(* Failed registrations: claims                                            *)
(***************************************************************************)
\* C26: a register_rv, Deterministic or Potential call that fails because
\* the name exists already leaves the collections of every model as they
\* were.
C26_FailedRegistration ==
    [][(/\ last'.op \in RegOps
        /\ nops' # nops
        /\ ~last'.ok
        /\ last'.err = "ValueError"
        /\ tree_contains(named_vars, last'.model, last'.name)) =>
            /\ free_RVs' = free_RVs
            /\ observed_RVs' = observed_RVs
            /\ deterministics' = deterministics
            /\ auto_deterministics' = auto_deterministics
            /\ potentials' = potentials
            /\ named_vars' = named_vars
            /\ rvs_to_values' = rvs_to_values
            /\ values_to_rvs' = values_to_rvs
      ]_vars


\* The random variables that variable v stands for: itself, or, for the
\* expression that recombines a split, the two halves.
StandsFor(v) ==
    IF vinfo[v].kind = "det" THEN {vinfo[v].parts[i].rv : i \in 1..Len(vinfo[v].parts)}
    ELSE {v}

\* C27: after a register_rv call that returned, the returned variable is in
\* named_vars of the model under its qualified name, and every random
\* variable it stands for is in free_RVs or observed_RVs and has a value
\* variable in rvs_to_values.
C27_ReturnedIsRegistered ==
    (last.op = "register_rv" /\ last.ok) =>
        LET mi == last.model
        IN  /\ last.name \in DOMAIN named_vars[mi]
            /\ named_vars[mi][last.name] = last.var
            /\ \A v \in StandsFor(last.var) :
                    /\ v \in Range(free_RVs[mi]) \cup Range(observed_RVs[mi])
                    /\ v \in DOMAIN rvs_to_values[mi]


(***************************************************************************)
(* Dimensions: claims                                                      *)
(***************************************************************************)
\* C28: in every model, coords and dim_lengths have the same keys, and every
\* key is a string: None is not a dimension.
C28_DimensionKeys ==
    \A mi \in DOMAIN models :
        /\ DOMAIN coords[mi] = DOMAIN dim_lengths[mi]
        /\ \A d \in DOMAIN coords[mi] : d.t = "str"


\* C29: a set_data call that fails leaves the coordinate values of every
\* dimension, every dimension length and the value of every variable as
\* they were.
C29_FailedSetData ==
    [][(SetDataCall /\ ~last'.ok) =>
            /\ coords' = coords
            /\ dim_lengths' = dim_lengths
            /\ vinfo' = vinfo
      ]_vars


(***************************************************************************)
(* SpecNames: name_for and name_of applied to enumerated names             *)
(***************************************************************************)
\* The names handed to name_for: every string of at most MaxName characters
\* over the characters of the model name, the separator and one more letter.
Names == SeqsUpTo({"a", "_", "x"}, MaxName)

\* model.name_for(n), then name_for and name_of applied to its result
NameFor(mi, n) ==
    /\ last' = [NoLast EXCEPT !.op = "name_for", !.model = mi, !.given = n,
                              !.name = name_for(mi, n), !.ok = TRUE,
                              !.out = <<name_for(mi, name_for(mi, n)),
                                        name_of(mi, name_for(mi, n))>>]
    /\ UNCHANGED <<models, named_vars, free_RVs, observed_RVs, deterministics,
                   auto_deterministics, potentials, rvs_to_values, values_to_rvs, coords,
                   dim_lengths, RV_dims, vinfo, warned, nops>>
    /\ UNCHANGED <<ctxvars, shapevars>>

NextNames ==
    \/ \E name \in ModelNames, parent \in 1..MaxModels : NewModel(name, parent)
    \/ \E mi \in DOMAIN models, n \in Names : NameFor(mi, n)

SpecNames == Init /\ [][NextNames]_vars

\* The other names of Names that name_for maps to the registered name of n.
Colliding(mi, n) == {n2 \in Names \ {n} : name_for(mi, n2) = name_for(mi, n)}

=============================================================================
